---- MODULE Spec2Model ----
(***************************************************************************)
(* Model of the capture-and-transcription controller of openwhispr:        *)
(* class AudioManager (src/unnamed/part_000) as driven by the              *)
(* useAudioRecording hook (src/src/hooks/useAudioRecording.js).            *)
(*                                                                         *)
(* JavaScript runs one task at a time, so every action below is one task   *)
(* or one stretch of an async function between two awaits.  Each call of   *)
(* startRecording that passes its guard is a "session" with its own        *)
(* stream, MediaRecorder and onstop closure; the AudioManager fields are   *)
(* shared by all of them.                                                  *)
(*                                                                         *)
(* Audio levels are fixed-point numbers in units of 0.04 of full scale     *)
(* (so VOICE_THRESHOLD, 0.04, is 1), durations are in milliseconds.        *)
(***************************************************************************)
EXTENDS Integers, Sequences, FiniteSets, TLC

\* ---- bounds of the model ----
MaxSessions == 2
MaxSpeechMs == 550

\* ---- VAD_CONFIG (part_000 lines 11-20) ----
VOICE_THRESHOLD == 1
MIN_SPEECH_DURATION == 500
ANALYSIS_INTERVAL == 50

Sessions == 1..MaxSessions
\* what the analyser may report on a tick: silence, or 0.2 of full scale
RmsInputs == {0, 5}
LocalProviders == {"whisper", "nvidia"}
BackendResults == {"text", "noAudio", "unsuccessful", "failure"}
AcquireOutcomes == {"ok", "getUserMediaRejects", "startThrows"}
VADStartOutcomes == {"ok", "contextThrows"}

VARIABLES
  isRecording,        \* this.isRecording
  isProcessing,       \* this.isProcessing
  mediaRecorder,      \* this.mediaRecorder: 0 = null, s = the recorder of session s
  audioChunks,        \* this.audioChunks.length
  recordingStartTime, \* this.recordingStartTime is non-null
  audioContext,       \* this.audioContext: 0 = null, s = the context made for session s
  analyser,           \* this.analyser
  audioSource,        \* this.audioSource
  vadIntervalId,      \* this.vadIntervalId: 0 = null, s = the timer made for session s
  currentAudioLevel,  \* this.currentAudioLevel
  peakAudioLevel,     \* this.peakAudioLevel
  voiceDetected,      \* this.voiceDetected
  speechDuration,     \* this.speechDuration, a double: <<ms, ulp>> (see SpeechSums)
  sess,               \* per session: where its startRecording call / recorder / onstop closure stands
  tracksStopped,      \* per session: how many times the stream's tracks were stopped
  pipe,               \* per session: the backend call its processAudio run is awaiting
  intervals,          \* timers scheduled by setInterval and not cleared
  openContexts,       \* AudioContexts created and not closed
  connectedSources,   \* MediaStreamSources connected and not disconnected
  callbacks,          \* the callbacks given to setCallbacks are still set (the hook is mounted)
  lastOp,             \* the operation or task that ran last, and what it returned
  emitted,            \* the this.on...?.() notifications the last operation made, in order
  dispatchRun,        \* one call of processAudio taken alone: its preferences and what its backends answer
  dispatchResult,     \* what that call's dispatch path returned or threw
  processedText,      \* what processTranscription made of that call's first transcript
  requests,           \* the transcription requests the run has sent: engine and recognition prompt
  clock,              \* Date.now(), in units of 10 s
  useReasoningModel,  \* localStorage "useReasoningModel"
  reasoningAvailabilityCache, \* this.reasoningAvailabilityCache: [value, expiresAt]
  cachedReasoningPreference,  \* this.cachedReasoningPreference
  probing,            \* the isReasoningAvailable calls awaiting ReasoningService.isAvailable()
  probed,             \* the evaluations that wrote the cache and have not expired since
  lastCall,           \* the isReasoningAvailable call that returned last
  streamRecords,      \* the records the server sends on one streamed response
  streamChunks,       \* what the reads of that response still have to deliver, read by read
  streamReader,       \* readTranscriptionStream's locals: buffer, collectedText, finalText
  streamResult,       \* what readTranscriptionStream returned
  cloudTranscriptionProvider,  \* localStorage "cloudTranscriptionProvider"
  cloudTranscriptionBaseUrl,   \* localStorage "cloudTranscriptionBaseUrl"
  cachedTranscriptionEndpoint, \* this.cachedTranscriptionEndpoint: <<>> = null
  cachedEndpointProvider,      \* this.cachedEndpointProvider
  cachedEndpointBaseUrl,       \* this.cachedEndpointBaseUrl
  lastEndpoint,       \* what getTranscriptionEndpoint() returned since the settings last changed: <<>> = no call
  preferBuiltInMic,   \* localStorage "preferBuiltInMic"
  selectedMicDeviceId, \* localStorage "selectedMicDeviceId"
  lastConstraints,    \* the last getAudioConstraints() call: what it read and what it returned
  cloudTranscriptionModel, \* localStorage "cloudTranscriptionModel"
  cachedApiKey,       \* this.cachedApiKey: "null", or the key of a provider
  cachedApiKeyProvider, \* this.cachedApiKeyProvider
  cloudReq,           \* the locals of the processWithOpenAIAPI call that is preparing its request
  lastRequest,        \* the fetch that call made, or how it failed before, since the settings last changed
  voicedTicks,        \* ticks whose smoothed level was above the threshold since a session last began to record
  keyDown,            \* the push-to-talk key is held: start-dictation was delivered last, not stop-dictation
  showNoAudioToast,   \* the hook's showNoAudioToast state
  noAudioTimeoutRef,  \* the hook's noAudioTimeoutRef: 0 = null, else the seconds left on its timer
  hookState,          \* the hook's isRecording / isProcessing state, as onStateChange last set it
  hookOp              \* the hook function or event handler that ran last, "task" for a task of the manager

ctrlVars == <<isRecording, isProcessing, mediaRecorder, audioChunks, recordingStartTime>>
vadNums == <<currentAudioLevel, peakAudioLevel, voiceDetected, speechDuration>>
vadRes == <<audioContext, analyser, audioSource, vadIntervalId,
            intervals, openContexts, connectedSources>>
sessVars == <<sess, tracksStopped, pipe>>
progVars == <<ctrlVars, vadNums, vadRes, sessVars, callbacks>>
vars == <<progVars, lastOp, emitted>>
\* the state of the functions that are modelled one call at a time
dispatchVars == <<dispatchRun, dispatchResult, processedText, requests>>
reasonVars == <<clock, useReasoningModel, reasoningAvailabilityCache,
                cachedReasoningPreference, probing, probed, lastCall>>
streamVars == <<streamRecords, streamChunks, streamReader, streamResult>>
endpointVars == <<cloudTranscriptionProvider, cloudTranscriptionBaseUrl,
                  cachedTranscriptionEndpoint, cachedEndpointProvider,
                  cachedEndpointBaseUrl, lastEndpoint>>
deviceVars == <<preferBuiltInMic, selectedMicDeviceId, lastConstraints>>
requestVars == <<cloudTranscriptionModel, cachedApiKey, cachedApiKeyProvider,
                 cloudReq, lastRequest>>
auxVars == <<dispatchVars, reasonVars, streamVars, endpointVars, deviceVars, requestVars>>
\* what the hook keeps beside the manager, and the count of voiced ticks
toastVars == <<showNoAudioToast, noAudioTimeoutRef>>
hookVars == <<keyDown, toastVars, hookState, hookOp>>
obsVars == <<voicedTicks, hookVars>>

NoPipe ==
  [stage |-> "none", useLocalWhisper |-> FALSE, viaLocal |-> "none",
   allowLocalFallback |-> FALSE, errors |-> <<>>, calls |-> 0]

\* what the awaited backend call of a pipeline step did; NoOutcome for other steps
NoOutcome == [kind |-> "none", source |-> "none", message |-> <<>>]

\* op, s, ret: the operation or task, its session, what it returned.  For a
\* pipeline step also: result, what the backend call ended in; fallbackEnabled,
\* the fallback preference its catch block tested; out, what the call did.
Op(name, s, ret) ==
  [op |-> name, s |-> s, ret |-> ret,
   result |-> "none", fallbackEnabled |-> FALSE, out |-> NoOutcome]

\* MediaRecorder.state of the recorder of session s
RecorderState(s) == IF s # 0 /\ sess[s] = "recording" THEN "recording" ELSE "inactive"

\* The stream of session s was obtained from getUserMedia
StreamAcquired(s) ==
  sess[s] \in {"recording", "stopping", "cancelling", "processing", "closed"}

\* The fields as the constructor leaves them, with the hook's callbacks set.
Constructed ==
  /\ isRecording = FALSE
  /\ isProcessing = FALSE
  /\ mediaRecorder = 0
  /\ audioChunks = 0
  /\ recordingStartTime = FALSE
  /\ audioContext = 0
  /\ analyser = 0
  /\ audioSource = 0
  /\ vadIntervalId = 0
  /\ currentAudioLevel = 0
  /\ peakAudioLevel = 0
  /\ voiceDetected = FALSE
  /\ speechDuration = <<0, 0>>
  /\ sess = [s \in Sessions |-> "unused"]
  /\ tracksStopped = [s \in Sessions |-> 0]
  /\ pipe = [s \in Sessions |-> NoPipe]
  /\ intervals = {}
  /\ openContexts = {}
  /\ connectedSources = {}
  /\ callbacks = TRUE
  /\ lastOp = Op("constructor", 0, TRUE)
  /\ emitted = <<>>

NoRun == [path |-> "none"]
NoResult == [kind |-> "none"]

NoCall == [op |-> "none", cached |-> FALSE, value |-> FALSE]

\* the reasoning availability cache as the constructor leaves it (lines 48-49)
ReasoningConstructed ==
  /\ clock = 1
  /\ useReasoningModel = "null"
  /\ reasoningAvailabilityCache = [value |-> FALSE, expiresAt |-> 0]
  /\ cachedReasoningPreference = "null"
  /\ probing = {}
  /\ probed = {}
  /\ lastCall = NoCall

NoDispatch ==
  /\ dispatchRun = NoRun
  /\ dispatchResult = NoResult
  /\ processedText = NoResult
  /\ requests = {}

\* readTranscriptionStream's locals as it declares them (lines 970-972);
\* finalText is <<>> for null and <<text>> for a string
NewReader == [buffer |-> <<>>, collectedText |-> <<>>, finalText |-> <<>>]

NoStream ==
  /\ streamRecords = <<>>
  /\ streamChunks = <<>>
  /\ streamReader = NewReader
  /\ streamResult = <<>>

\* the endpoint cache as the constructor leaves it (lines 44-46), nothing stored
EndpointConstructed ==
  /\ cloudTranscriptionProvider = "null"
  /\ cloudTranscriptionBaseUrl = <<"null">>
  /\ cachedTranscriptionEndpoint = <<>>
  /\ cachedEndpointProvider = "null"
  /\ cachedEndpointBaseUrl = <<"null">>
  /\ lastEndpoint = <<>>

\* nothing stored about the microphone, getAudioConstraints not called
DeviceIdle ==
  /\ preferBuiltInMic = "null"
  /\ selectedMicDeviceId = "null"
  /\ lastConstraints = [op |-> "none", preferBuiltIn |-> FALSE, selectedDeviceId |-> "",
                        builtInMic |-> "", audio |-> ""]

\* the hook as useState / useRef initialise it (lines 24-26), no key held
HookMounted ==
  /\ voicedTicks = 0
  /\ keyDown = FALSE
  /\ showNoAudioToast = FALSE
  /\ noAudioTimeoutRef = 0
  /\ hookState = [isRecording |-> FALSE, isProcessing |-> FALSE]
  /\ hookOp = "none"

NoRequest ==
  [sent |-> FALSE, failed |-> "none", endpoint |-> <<>>, apiKey |-> "null", stream |-> FALSE,
   file |-> "none", model |-> <<>>, provider |-> "null"]

\* no cloud request under way; the key cache as the constructor leaves it (lines 42-43)
RequestIdle ==
  /\ cloudTranscriptionModel = <<"null">>
  /\ cachedApiKey = "null"
  /\ cachedApiKeyProvider = "null"
  /\ cloudReq = [stage |-> "none"]
  /\ lastRequest = NoRequest

Init ==
  /\ Constructed
  /\ HookMounted
  /\ RequestIdle
  /\ DeviceIdle
  /\ NoDispatch
  /\ ReasoningConstructed
  /\ NoStream
  /\ EndpointConstructed


\* ---------------------------------------------------------------------------
\* Voice activity detector
\* ---------------------------------------------------------------------------

\* startVADMonitoring(stream) for session s.  The whole body is inside try/catch:
\* "contextThrows" is new AudioContext() throwing, the first statement, so that
\* nothing is assigned or reset.
StartVADMonitoring(s, outcome) ==
  IF outcome = "contextThrows"
  THEN UNCHANGED <<vadNums, vadRes>>
  ELSE /\ audioContext' = s
       /\ openContexts' = openContexts \cup {s}
       /\ analyser' = s
       /\ audioSource' = s
       /\ connectedSources' = connectedSources \cup {s}
       /\ currentAudioLevel' = 0
       /\ peakAudioLevel' = 0
       /\ voiceDetected' = FALSE
       /\ speechDuration' = <<0, 0>>
       /\ vadIntervalId' = s
       /\ intervals' = intervals \cup {s}

StopVADKeepsIntervalId ==
  /\ intervals' = intervals \ {vadIntervalId}
  /\ audioSource' = 0
  /\ connectedSources' = connectedSources \ {audioSource}
  /\ audioContext' = 0
  /\ openContexts' = openContexts \ {audioContext}
  /\ analyser' = 0
  /\ UNCHANGED <<vadIntervalId, vadNums>>

\* stopVADMonitoring(): clears whatever the fields reference; the snapshot it
\* returns is the three fields, which it leaves alone.
StopVADMonitoring ==
  /\ vadIntervalId' = 0
  /\ intervals' = intervals \ {vadIntervalId}
  /\ audioSource' = 0
  /\ connectedSources' = connectedSources \ {audioSource}
  /\ audioContext' = 0
  /\ openContexts' = openContexts \ {audioContext}
  /\ analyser' = 0
  /\ UNCHANGED vadNums

\* the stats object stopVADMonitoring returns
VADStats ==
  [peakLevel |-> peakAudioLevel, voiceDetected |-> voiceDetected,
   speechDuration |-> speechDuration]

\* this.speechDuration is a double that starts at 0 and only ever has 0.05
\* (ANALYSIS_INTERVAL / 1000) added to it.  SpeechSums[n] is how the double
\* reached by n such additions is rounded: 0 when it is the double nearest to
\* n * 0.05 in decimal, -1 / +1 when it is the double just below / above it
\* (0.05 added ten times is 0.49999999999999994).  The value is written
\* <<ms, ulp>> with ms = n * ANALYSIS_INTERVAL and ulp = SpeechSums[n].
SpeechSums == <<0, 0, 1, 0, 0, 0, 0, -1, -1, -1, -1, 0, 0, 1, 1>>

\* this.speechDuration += VAD_CONFIG.ANALYSIS_INTERVAL / 1000
AddAnalysisInterval(d) ==
  LET n == (d[1] \div ANALYSIS_INTERVAL) + 1
  IN <<n * ANALYSIS_INTERVAL, SpeechSums[n]>>

\* d >= VAD_CONFIG.MIN_SPEECH_DURATION, on doubles
AtLeastMinSpeech(d) ==
  d[1] > MIN_SPEECH_DURATION \/ (d[1] = MIN_SPEECH_DURATION /\ d[2] >= 0)

\* hasValidAudioContent()
HasValidAudioContent ==
  /\ voiceDetected
  /\ AtLeastMinSpeech(speechDuration)
  /\ peakAudioLevel > VOICE_THRESHOLD

\* currentAudioLevel * 0.7 + rms * 0.3, in fixed point
Smooth(level, rms) == (7 * level + 3 * rms) \div 10

PeakNotTracked(level, peak) == peak

\* if (currentAudioLevel > peakAudioLevel) peakAudioLevel = currentAudioLevel
TrackPeak(level, peak) == IF level > peak THEN level ELSE peak

\* One run of the setInterval callback of timer i, the analyser reporting rms.
\* The callback reads this.analyser, whichever session made it; with
\* this.analyser null the call throws and nothing is updated.
VADTick(i, rms) ==
  /\ i \in intervals
  /\ speechDuration[1] < MaxSpeechMs
  /\ IF analyser = 0
     THEN /\ UNCHANGED vadNums
          /\ UNCHANGED auxVars
          /\ lastOp' = Op("vadTick", 0, FALSE)
          /\ emitted' = <<>>
     ELSE LET level == Smooth(currentAudioLevel, rms)
              isVoiceNow == level > VOICE_THRESHOLD
          IN /\ currentAudioLevel' = level
             /\ peakAudioLevel' = TrackPeak(level, peakAudioLevel)
             /\ voiceDetected' = (voiceDetected \/ isVoiceNow)
             /\ speechDuration' = IF isVoiceNow
                                  THEN AddAnalysisInterval(speechDuration)
                                  ELSE speechDuration
             /\ UNCHANGED auxVars
             /\ lastOp' = Op("vadTick", 0, TRUE)
             /\ emitted' = <<"vad">>
  /\ UNCHANGED <<ctrlVars, vadRes, sessVars, callbacks>>

\* ---------------------------------------------------------------------------
\* startRecording
\* ---------------------------------------------------------------------------

StartGuardIgnoresProcessing == isRecording \/ RecorderState(mediaRecorder) = "recording"

\* if (this.isRecording || this.isProcessing || this.mediaRecorder?.state === "recording") return false
StartGuard == isRecording \/ isProcessing \/ RecorderState(mediaRecorder) = "recording"

FreeSessions == {s \in Sessions : sess[s] = "unused"}
NextSession == CHOOSE s \in FreeSessions : \A t \in FreeSessions : s <= t

\* The call of startRecording() up to its first await.
StartRecording ==
  /\ callbacks
  /\ IF StartGuard
     THEN /\ UNCHANGED auxVars
          /\ lastOp' = Op("startRecording", 0, FALSE)
          /\ emitted' = <<>>
          /\ UNCHANGED progVars
     ELSE /\ FreeSessions # {}
          /\ sess' = [sess EXCEPT ![NextSession] = "acquiring"]
          /\ UNCHANGED auxVars
          /\ lastOp' = Op("startRecording", NextSession, TRUE)
          /\ emitted' = <<>>
          /\ UNCHANGED <<ctrlVars, vadNums, vadRes, tracksStopped, pipe, callbacks>>

\* startRecording() after getAudioConstraints/getUserMedia settle, to its end.
AcquireSettle(s, outcome, vadOutcome) ==
  /\ sess[s] = "acquiring"
  /\ IF outcome = "getUserMediaRejects"
     THEN /\ sess' = [sess EXCEPT ![s] = "failed"]
          /\ UNCHANGED auxVars
          /\ lastOp' = Op("startRecordingSettled", s, FALSE)
          /\ emitted' = <<"error">>
          /\ UNCHANGED <<ctrlVars, vadNums, vadRes>>
     ELSE /\ mediaRecorder' = s
          /\ audioChunks' = 0
          /\ recordingStartTime' = TRUE
          /\ StartVADMonitoring(s, vadOutcome)
          /\ IF outcome = "startThrows"
             THEN /\ sess' = [sess EXCEPT ![s] = "closed"]
                  /\ UNCHANGED auxVars
                  /\ lastOp' = Op("startRecordingSettled", s, FALSE)
                  /\ emitted' = <<"error">>
                  /\ UNCHANGED <<isRecording, isProcessing>>
             ELSE /\ sess' = [sess EXCEPT ![s] = "recording"]
                  /\ isRecording' = TRUE
                  /\ UNCHANGED auxVars
                  /\ lastOp' = Op("startRecordingSettled", s, TRUE)
                  /\ emitted' = <<"state:recording">>
                  /\ UNCHANGED isProcessing
  /\ UNCHANGED <<tracksStopped, pipe, callbacks>>

\* ---------------------------------------------------------------------------
\* stopRecording / cancelRecording
\* ---------------------------------------------------------------------------

\* stopRecording(): MediaRecorder.stop() makes the recorder inactive at once
\* and queues the dataavailable and stop events.
StopRecording ==
  /\ callbacks
  /\ IF RecorderState(mediaRecorder) = "recording"
     THEN /\ sess' = [sess EXCEPT ![mediaRecorder] = "stopping"]
          /\ UNCHANGED auxVars
          /\ lastOp' = Op("stopRecording", mediaRecorder, TRUE)
          /\ emitted' = <<>>
          /\ UNCHANGED <<ctrlVars, vadNums, vadRes, tracksStopped, pipe, callbacks>>
     ELSE /\ UNCHANGED auxVars
          /\ lastOp' = Op("stopRecording", 0, FALSE)
          /\ emitted' = <<>>
          /\ UNCHANGED progVars

CancelKeepsVAD == UNCHANGED <<vadRes, vadNums>>

\* the stopVADMonitoring() call of cancelRecording
CancelStopsVAD == StopVADMonitoring

\* cancelRecording(): stops VAD, replaces onstop, stops the recorder and the tracks.
CancelRecording ==
  /\ callbacks
  /\ IF RecorderState(mediaRecorder) = "recording"
     THEN /\ CancelStopsVAD
          /\ sess' = [sess EXCEPT ![mediaRecorder] = "cancelling"]
          /\ tracksStopped' = [tracksStopped EXCEPT ![mediaRecorder] = @ + 1]
          /\ UNCHANGED auxVars
          /\ lastOp' = Op("cancelRecording", mediaRecorder, TRUE)
          /\ emitted' = <<>>
          /\ UNCHANGED <<ctrlVars, pipe, callbacks>>
     ELSE /\ UNCHANGED auxVars
          /\ lastOp' = Op("cancelRecording", 0, FALSE)
          /\ emitted' = <<>>
          /\ UNCHANGED progVars

\* cleanup(), which the hook calls when it unmounts: stops VAD, stops a recorder
\* that is recording (its onstop handler runs later), clears the callbacks.
Cleanup ==
  /\ callbacks
  /\ StopVADMonitoring
  /\ IF RecorderState(mediaRecorder) = "recording"
     THEN sess' = [sess EXCEPT ![mediaRecorder] = "stopping"]
     ELSE UNCHANGED sess
  /\ callbacks' = FALSE
  /\ UNCHANGED auxVars
  /\ lastOp' = Op("cleanup", 0, TRUE)
  /\ emitted' = <<>>
  /\ UNCHANGED <<ctrlVars, tracksStopped, pipe>>


\* ---------------------------------------------------------------------------
\* the stop event of a recorder
\* ---------------------------------------------------------------------------

FinalizeGateIgnoresDuration(stats) == stats.voiceDetected

\* the negation of the inline test of onstop:
\* !vadStats.voiceDetected || vadStats.speechDuration < MIN_SPEECH_DURATION
FinalizeGate(stats) ==
  stats.voiceDetected /\ AtLeastMinSpeech(stats.speechDuration)

\* ---- error messages: a message is the sequence of its parts ----
NoAudioMessage == <<"No audio detected">>
\* what a local engine throws, what it returns in {success: false, message}, and
\* what the cloud request throws, when it is not the no-audio message
LocalThrown == <<"local engine error">>
LocalMessage == <<"local engine message">>
CloudThrown == <<"cloud error">>

\* what an awaited processWith... call does: return a result, throw, or go on
\* to await a fallback backend
Returned(source) == [kind |-> "returned", source |-> source, message |-> <<>>]
Threw(message) == [kind |-> "threw", source |-> "none", message |-> message]
AwaitsFallback == [kind |-> "fallback", source |-> "none", message |-> <<>>]

\* processWithOpenAIAPI up to its first await; allowLocalFallback is read once,
\* here.  errors are the messages of the errors caught so far in this run, calls
\* the backend transcription calls made so far.
CloudCall(useLocalWhisper, viaLocal, allowLocalFallback, errors, calls) ==
  [stage |-> "cloud", useLocalWhisper |-> useLocalWhisper, viaLocal |-> viaLocal,
   allowLocalFallback |-> allowLocalFallback, errors |-> errors, calls |-> calls]

\* processWithLocalWhisper / processWithLocalParakeet up to the engine call
LocalCall(engine) ==
  [stage |-> engine, useLocalWhisper |-> TRUE, viaLocal |-> "none",
   allowLocalFallback |-> FALSE, errors |-> <<>>, calls |-> 1]

\* processAudio up to its first await: the backend is chosen from the stored
\* preferences useLocalWhisper and localTranscriptionProvider, read here.  The
\* preferences are not changed while a run is in flight, so the later reads of
\* useLocalWhisper in the catch blocks see the value read here.
ProcessAudioStart(useLocalWhisper, localProvider, allowLocalFallback) ==
  IF useLocalWhisper
  THEN LocalCall(IF localProvider = "nvidia" THEN "parakeet" ELSE "whisper")
  ELSE CloudCall(FALSE, "none", allowLocalFallback, <<>>, 1)

\* The onstop handler installed by startRecording (session s), run when the
\* recorder's stop task fires; ondataavailable runs first in the same task.
FinalizeOnStop(s, useLocalWhisper, localProvider, allowLocalFallback) ==
  /\ sess[s] = "stopping"
  /\ StopVADMonitoring
  /\ isRecording' = FALSE
  /\ recordingStartTime' = FALSE
  /\ audioChunks' = audioChunks + 1
  /\ UNCHANGED auxVars
  /\ lastOp' = Op("onstop", s, TRUE)
  /\ IF ~FinalizeGate(VADStats)
     THEN /\ isProcessing' = FALSE
          /\ emitted' = <<"state:idle", "noAudio">>
          /\ tracksStopped' = [tracksStopped EXCEPT ![s] = @ + 1]
          /\ sess' = [sess EXCEPT ![s] = "closed"]
          /\ UNCHANGED pipe
     ELSE /\ isProcessing' = TRUE
          /\ emitted' = <<"state:processing">>
          /\ pipe' = [pipe EXCEPT ![s] =
                        ProcessAudioStart(useLocalWhisper, localProvider, allowLocalFallback)]
          /\ sess' = [sess EXCEPT ![s] = "processing"]
          /\ UNCHANGED tracksStopped
  /\ UNCHANGED <<mediaRecorder, callbacks>>

\* this.audioChunks = [] of the handler cancelRecording installs
CancelOnStopChunks == 0

\* The onstop handler installed by cancelRecording.
CancelOnStop(s) ==
  /\ sess[s] = "cancelling"
  /\ isRecording' = FALSE
  /\ isProcessing' = FALSE
  /\ audioChunks' = CancelOnStopChunks
  /\ recordingStartTime' = FALSE
  /\ sess' = [sess EXCEPT ![s] = "closed"]
  /\ UNCHANGED auxVars
  /\ lastOp' = Op("onstopCancelled", s, TRUE)
  /\ emitted' = <<"state:idle">>
  /\ UNCHANGED <<mediaRecorder, vadNums, vadRes, tracksStopped, pipe, callbacks>>

\* ---------------------------------------------------------------------------
\* the pipeline: processAudio and the three processWith... functions
\* ---------------------------------------------------------------------------

\* "No audio detected" is not reported: if (error.message !== "No audio detected")
ReportsError(message) == message # NoAudioMessage

\* what processAudio does with the result of the awaited call: "complete" is
\* onTranscriptionComplete(result), "error" is onError, "silent" is neither
PipelineOutcome(ret) ==
  IF ret.kind = "returned" THEN "complete"
  ELSE IF ReportsError(ret.message) THEN "error"
  ELSE "silent"

CompletionAlsoReported(outcome) ==
  IF outcome = "silent" THEN <<>> ELSE <<"complete", "error">>

OutcomeEvent(outcome) ==
  IF outcome = "complete" THEN <<"complete">>
  ELSE IF outcome = "error" THEN <<"error">>
  ELSE <<>>

FinishLeavesProcessing(s, outcome) ==
  /\ isProcessing' = (outcome = "error")
  /\ emitted' = OutcomeEvent(outcome) \o <<"state:idle">>
  /\ pipe' = [pipe EXCEPT ![s] = NoPipe]
  /\ sess' = [sess EXCEPT ![s] = IF outcome = "error" THEN "processing" ELSE "closed"]
  /\ tracksStopped' = [tracksStopped EXCEPT ![s] = @ + 1]

\* The end of processAudio (try / catch / finally) and the rest of onstop after
\* "await this.processAudio(...)": the tracks are stopped.
Finish(s, outcome) ==
  /\ isProcessing' = FALSE
  /\ emitted' = OutcomeEvent(outcome) \o <<"state:idle">>
  /\ pipe' = [pipe EXCEPT ![s] = NoPipe]
  /\ sess' = [sess EXCEPT ![s] = "closed"]
  /\ tracksStopped' = [tracksStopped EXCEPT ![s] = @ + 1]

EngineLabel(engine) == IF engine = "parakeet" THEN "Parakeet" ELSE "Local Whisper"
LocalSource(engine) == IF engine = "parakeet" THEN "local-parakeet" ELSE "local"
\* (await this.isReasoningAvailable()) ? "openai-reasoned" : "openai"
CloudSource(reasoningAvailable) == IF reasoningAvailable THEN "openai-reasoned" ELSE "openai"

\* `${label} failed: ${error.message}`
LocalFailed(engine, message) == <<EngineLabel(engine), " failed: ">> \o message

LocalFailedOnly(engine, message, fallbackMessage) == LocalFailed(engine, message)

\* `${label} failed: ${error.message}. OpenAI fallback also failed: ${fallbackError.message}`
LocalAndFallbackFailed(engine, message, fallbackMessage) ==
  LocalFailed(engine, message) \o <<". OpenAI fallback also failed: ">> \o fallbackMessage

\* `OpenAI API failed: ${error.message}. Local fallback also failed: ${fallbackError.message}`
CloudAndFallbackFailed(message, fallbackMessage) ==
  <<"OpenAI API failed: ">> \o message \o <<". Local fallback also failed: ">>
    \o fallbackMessage

NoAudioNotRecognised(message) == FALSE

\* if (error.message === "No audio detected") throw error
IsNoAudio(message) == message = NoAudioMessage

FallbackSourceKept(source) == source

\* { ...fallbackResult, source: "openai-fallback" }
FallbackSource(source) == "openai-fallback"

CloudFallsBackInAnyMode(p) == p.allowLocalFallback

\* if (allowLocalFallback && isOpenAIMode)
CloudFallsBackToLocal(p) == p.allowLocalFallback /\ ~p.useLocalWhisper

\* the message of the error a local engine call ends in
LocalResultMessage(result) ==
  IF result = "noAudio" THEN NoAudioMessage
  ELSE IF result = "unsuccessful" THEN LocalMessage
  ELSE LocalThrown

\* The try/catch around the fallback call in the catch block of
\* processWithLocalWhisper / processWithLocalParakeet: what the local function
\* does with what its awaited processWithOpenAIAPI call did (inner).
ViaLocal(p, inner) ==
  IF p.viaLocal = "none" \/ inner.kind = "fallback" THEN inner
  ELSE IF inner.kind = "returned" THEN Returned(FallbackSource(inner.source))
  ELSE Threw(LocalAndFallbackFailed(p.viaLocal, p.errors[1], inner.message))

\* One step of the run of session s: ret is what the call did; the run goes on
\* with next if it awaits a fallback, and ends otherwise.
Settle(s, name, result, fallbackEnabled, ret, next) ==
  /\ UNCHANGED auxVars
  /\ lastOp' = [Op(name, s, ret.kind = "returned") EXCEPT
                  !.result = result, !.fallbackEnabled = fallbackEnabled, !.out = ret]
  /\ IF ret.kind = "fallback"
     THEN /\ pipe' = [pipe EXCEPT ![s] = next]
          /\ emitted' = <<>>
          /\ UNCHANGED <<isProcessing, sess, tracksStopped>>
     ELSE Finish(s, PipelineOutcome(ret))
  /\ UNCHANGED <<isRecording, mediaRecorder, audioChunks, recordingStartTime,
                 vadNums, vadRes, callbacks>>

\* The local engine called first settles.  "text" is {success: true, text}
\* followed by processTranscription; "noAudio" is {success: false, message:
\* "No audio detected"}; "unsuccessful" any other result; "failure" a throw.
LocalSettle(s, result, allowOpenAIFallback, allowLocalFallback) ==
  /\ sess[s] = "processing"
  /\ pipe[s].stage \in {"whisper", "parakeet"}
  /\ LET p == pipe[s]
         message == LocalResultMessage(result)
         ret == IF result = "text" THEN Returned(LocalSource(p.stage))
                ELSE IF IsNoAudio(message) THEN Threw(message)
                ELSE IF allowOpenAIFallback /\ p.useLocalWhisper THEN AwaitsFallback
                ELSE Threw(LocalFailed(p.stage, message))
     IN Settle(s, "localSettled", result, allowOpenAIFallback, ret,
               CloudCall(TRUE, p.stage, allowLocalFallback, <<message>>, p.calls + 1))

\* The cloud request (key lookup, optimisation, fetch, body, processTranscription)
\* settles: "text" is a non-empty transcript, "failure" any throw on the way.
CloudSettle(s, result, reasoningAvailable) ==
  /\ sess[s] = "processing"
  /\ pipe[s].stage = "cloud"
  /\ result \in {"text", "failure"}
  /\ LET p == pipe[s]
         inner == IF result = "text" THEN Returned(CloudSource(reasoningAvailable))
                  ELSE IF CloudFallsBackToLocal(p) THEN AwaitsFallback
                  ELSE Threw(CloudThrown)
     IN Settle(s, "cloudSettled", result, p.allowLocalFallback, ViaLocal(p, inner),
               [p EXCEPT !.stage = "localFallback",
                         !.errors = p.errors \o <<CloudThrown>>,
                         !.calls = p.calls + 1])

\* The local engine called as the cloud path's fallback settles.  Only a result
\* with text returns; a throw is caught as fallbackError, and any other result
\* rethrows the cloud error, which is then caught as fallbackError.
LocalFallbackSettle(s, result) ==
  /\ sess[s] = "processing"
  /\ pipe[s].stage = "localFallback"
  /\ LET p == pipe[s]
         error == p.errors[Len(p.errors)]
         fallbackError == IF result = "failure" THEN LocalThrown ELSE error
         inner == IF result = "text" THEN Returned("local-fallback")
                  ELSE Threw(CloudAndFallbackFailed(error, fallbackError))
     IN Settle(s, "localFallbackSettled", result, FALSE, ViaLocal(p, inner), p)

PipelineStep(s) ==
  \/ \E r \in BackendResults, f \in BOOLEAN, g \in BOOLEAN : LocalSettle(s, r, f, g)
  \/ \E r \in BackendResults, a \in BOOLEAN : CloudSettle(s, r, a)
  \/ \E r \in BackendResults : LocalFallbackSettle(s, r)

\* the manager's operations and tasks; what the hook keeps is left to the
\* specification that takes the step
Next ==
  \/ StartRecording /\ UNCHANGED obsVars
  \/ \E s \in Sessions, o \in AcquireOutcomes, v \in VADStartOutcomes :
       AcquireSettle(s, o, v) /\ UNCHANGED obsVars
  \/ \E i \in Sessions, rms \in RmsInputs : VADTick(i, rms) /\ UNCHANGED obsVars
  \/ StopRecording /\ UNCHANGED obsVars
  \/ CancelRecording /\ UNCHANGED obsVars
  \/ Cleanup /\ UNCHANGED obsVars
  \/ \E s \in Sessions, u \in BOOLEAN, p \in LocalProviders, g \in BOOLEAN :
       FinalizeOnStop(s, u, p, g) /\ UNCHANGED obsVars
  \/ \E s \in Sessions : CancelOnStop(s) /\ UNCHANGED obsVars
  \/ \E s \in Sessions : PipelineStep(s) /\ UNCHANGED obsVars

Spec == Init /\ [][Next]_vars

\* every backend call eventually settles
LiveSpec == Spec /\ \A s \in Sessions : WF_vars(PipelineStep(s) /\ UNCHANGED obsVars)

TypeOK ==
  /\ isRecording \in BOOLEAN /\ isProcessing \in BOOLEAN
  /\ mediaRecorder \in 0..MaxSessions
  /\ sess \in [Sessions -> {"unused", "acquiring", "failed", "recording", "stopping",
                            "cancelling", "processing", "closed"}]
  /\ audioChunks \in 0..MaxSessions
  /\ tracksStopped \in [Sessions -> 0..2]
  /\ intervals \subseteq Sessions
  /\ callbacks \in BOOLEAN
  /\ speechDuration \in (0..(MaxSpeechMs + ANALYSIS_INTERVAL)) \X {-1, 0, 1}


\* ---------------------------------------------------------------------------
\* Properties
\* ---------------------------------------------------------------------------

Recorders == {s \in Sessions : RecorderState(s) = "recording"}
LiveStreams == {s \in Sessions : StreamAcquired(s) /\ tracksStopped[s] = 0}
Pipelines == {s \in Sessions : sess[s] = "processing"}

CtrlState ==
  IF isRecording /\ isProcessing THEN "Invalid"
  ELSE IF isRecording THEN "Recording"
  ELSE IF isProcessing THEN "Processing"
  ELSE "Idle"

\* C1: at most one recording session is active: never more than one recorder
\* recording, one live capture stream, one VAD sampling timer.
C1_AtMostOneActiveSession ==
  /\ Cardinality(Recorders) <= 1
  /\ Cardinality(LiveStreams) <= 1
  /\ Cardinality(intervals) <= 1

\* C2: no two processAudio runs are in flight at the same time.
C2_NoConcurrentPipelines == Cardinality(Pipelines) <= 1

\* C3: when cancelRecording() is called while the stop of the current recorder
\* is pending (stopRecording() was called, onstop has not run), the onstop
\* handler that runs next does not enter the pipeline.
C3_CancelPreemptsFinalize ==
  [][(lastOp.op = "cancelRecording" /\ mediaRecorder # 0 /\ sess[mediaRecorder] = "stopping")
       => sess'[mediaRecorder] # "processing"]_vars

\* C4: isRecording and isProcessing are never both true, and the controller
\* moves only Idle->Recording, Recording->Processing, Processing->Idle,
\* Recording->Idle.
C4_StateMachine ==
  [][/\ CtrlState' # "Invalid"
     /\ \/ CtrlState' = CtrlState
        \/ <<CtrlState, CtrlState'>> \in
             {<<"Idle", "Recording">>, <<"Recording", "Processing">>,
              <<"Processing", "Idle">>, <<"Recording", "Idle">>}]_vars

\* C5: startRecording() called while Recording or Processing returns false and
\* changes nothing: no session is opened, no field is touched, no callback runs.
C5_StartIsNoOpWhenBusy ==
  [][(lastOp'.op = "startRecording" /\ (isRecording \/ isProcessing))
       => (lastOp'.ret = FALSE /\ emitted' = <<>> /\ UNCHANGED progVars)]_vars

C5_Witness == lastOp = Op("startRecording", 0, FALSE) /\ isProcessing

\* C6: when the finalize handler runs and the VAD state is not valid audio, the
\* controller is Idle afterwards, the session is closed with its pipeline never
\* started, and the handler emitted the Idle state change and the no-audio
\* signal once each, and nothing else.
C6_NoAudioStop ==
  \A s \in Sessions :
    (lastOp = Op("onstop", s, TRUE) /\ ~HasValidAudioContent)
      => /\ ~isRecording /\ ~isProcessing
         /\ sess[s] = "closed" /\ pipe[s] = NoPipe
         /\ emitted = <<"state:idle", "noAudio">>

C6_Witness ==
  \E s \in Sessions :
    /\ lastOp = Op("onstop", s, TRUE)
    /\ voiceDetected
    /\ "noAudio" \in {emitted[i] : i \in DOMAIN emitted}

\* C7: the inline test of the finalize handler and hasValidAudioContent() agree
\* in every reachable state, and the handler enters the pipeline iff
\* hasValidAudioContent() holds when it runs.
C7_GateIsHasValidAudioContent ==
  /\ FinalizeGate(VADStats) <=> HasValidAudioContent
  /\ \A s \in Sessions :
       lastOp = Op("onstop", s, TRUE) => (sess[s] = "processing" <=> HasValidAudioContent)

C7_Witness ==
  \E s \in Sessions :
    lastOp = Op("onstop", s, TRUE) /\ sess[s] = "processing" /\ HasValidAudioContent

\* C8: an accepted cancelRecording() tears the VAD down at once and emits
\* nothing; from then on the session can only close, and the step that closes it
\* empties the chunk buffer, leaves the controller Idle, starts no pipeline and
\* emits the Idle state change and nothing else.
C8_CancelDiscards ==
  [][\A s \in Sessions :
       /\ lastOp' = Op("cancelRecording", s, TRUE)
            => /\ sess'[s] = "cancelling"
               /\ vadIntervalId' = 0 /\ audioSource' = 0 /\ audioContext' = 0 /\ analyser' = 0
               /\ s \notin intervals'
               /\ emitted' = <<>>
       /\ sess[s] = "cancelling"
            => \/ sess'[s] = "cancelling" /\ pipe'[s] = NoPipe
               \/ /\ sess'[s] = "closed" /\ pipe'[s] = NoPipe
                  /\ audioChunks' = 0
                  /\ ~isRecording' /\ ~isProcessing'
                  /\ emitted' = <<"state:idle">>]_vars

C8_Witness ==
  \E s \in Sessions :
    lastOp = Op("onstopCancelled", s, TRUE) /\ voiceDetected /\ audioChunks = 0

\* C9: every session that obtained a stream and has ended had the stream's
\* tracks stopped exactly once.
C9_TracksReleasedOnce ==
  \A s \in Sessions : sess[s] = "closed" => tracksStopped[s] = 1

\* C10: every pipeline run ends: a session that is processing is eventually
\* closed by a step that clears isProcessing and emits the Idle state change,
\* and the controller does not stay in Processing.
C10_PipelineTerminates ==
  /\ \A s \in Sessions :
       (sess[s] = "processing")
         ~> (sess[s] = "closed" /\ ~isProcessing /\ emitted # <<>>
             /\ emitted[Len(emitted)] = "state:idle")
  /\ isProcessing ~> ~isProcessing

C10_Witness ==
  \E s \in Sessions :
    lastOp.op = "localFallbackSettled" /\ lastOp.s = s /\ sess[s] = "closed"
      /\ emitted = <<"error", "state:idle">>

\* every field stopVADMonitoring() tests or clears is null
VADStopped == vadIntervalId = 0 /\ audioSource = 0 /\ audioContext = 0 /\ analyser = 0

\* C11: whenever the controller is Idle, no VAD sampling interval is scheduled
\* and no audio-analysis context is open.
C11_IdleHasNoVAD ==
  CtrlState = "Idle" => (intervals = {} /\ openContexts = {})

\* C12: voiceDetected is a latch within a session: once it is true while the
\* VAD of session s is the running one, it stays true as long as session s is
\* recording or waiting for its stop handler, whose snapshot then reports true.
C12_VoiceLatch ==
  [][\A s \in Sessions :
       (sess[s] \in {"recording", "stopping"} /\ analyser = s /\ voiceDetected)
         => voiceDetected']_vars

\* C13: a session starts recording with voiceDetected false and speechDuration
\* 0 whatever earlier sessions observed, and a tick whose smoothed level does not
\* exceed the threshold leaves both as they are.
C13_QuietSessionStaysQuiet ==
  [][/\ \A s \in Sessions :
          (sess[s] = "acquiring" /\ sess'[s] = "recording")
            => (~voiceDetected' /\ speechDuration' = <<0, 0>>)
     /\ (lastOp'.op = "vadTick" /\ currentAudioLevel' <= VOICE_THRESHOLD)
          => UNCHANGED <<voiceDetected, speechDuration>>]_vars

\* C14: stopVADMonitoring() is idempotent: every call leaves the VAD stopped,
\* and a call made when the VAD is already stopped or was never started tears
\* nothing down and returns the snapshot the fields already held.
C14_StopVADIdempotent ==
  [][(\/ lastOp'.op \in {"onstop", "cleanup"}
      \/ lastOp'.op = "cancelRecording" /\ lastOp'.ret)
       => /\ VADStopped'
          /\ VADStopped => (UNCHANGED <<vadRes, vadNums>> /\ VADStats' = VADStats)]_vars

C14_Witness ==
  \E s \in Sessions :
    /\ lastOp = Op("onstop", s, TRUE)
    /\ ~callbacks
    /\ \A x \in Sessions \ {s} : sess[x] = "unused"
    /\ voiceDetected

\* part occurs in message
Contains(message, part) ==
  \E i \in 1..(Len(message) - Len(part) + 1) :
    SubSeq(message, i, i + Len(part) - 1) = part

\* C15: when a local engine called first ends in "No audio detected", the run
\* ends there: no cloud fallback is started, whatever the fallback preference,
\* and the error thrown to processAudio is the no-audio message itself.
C15_NoAudioNeverFallsBack ==
  \A s \in Sessions :
    (lastOp.op = "localSettled" /\ lastOp.s = s /\ lastOp.result = "noAudio")
      => /\ lastOp.out = Threw(NoAudioMessage)
         /\ pipe[s] = NoPipe
         /\ sess[s] = "closed"

C15_Witness ==
  /\ lastOp.op = "localSettled"
  /\ lastOp.result = "noAudio"
  /\ lastOp.fallbackEnabled
  /\ emitted = <<"state:idle">>

\* C16: every no-audio outcome, from the VAD gate of the stop handler or from a
\* local engine in the pipeline, makes the no-audio notification and never the
\* error notification.
C16_NoAudioHasItsOwnSignal ==
  (\/ lastOp.op = "onstop" /\ ~FinalizeGate(VADStats)
   \/ lastOp.op = "localSettled" /\ lastOp.result = "noAudio")
    => /\ "noAudio" \in {emitted[i] : i \in DOMAIN emitted}
       /\ "error" \notin {emitted[i] : i \in DOMAIN emitted}

\* C17: when the local engine called first fails with anything but no-audio, in
\* local mode with the cloud fallback enabled, the cloud path is called, as the
\* second and last backend call of the run; when it returns text the run
\* completes with a result whose source is "openai-fallback".
C17_LocalFailureFallsBackToCloud ==
  [][\A s \in Sessions :
       /\ ( /\ lastOp'.op = "localSettled" /\ lastOp'.s = s
            /\ lastOp'.result \in {"unsuccessful", "failure"}
            /\ lastOp'.fallbackEnabled /\ pipe[s].useLocalWhisper )
            => /\ pipe'[s].stage = "cloud"
               /\ pipe'[s].calls = 2
               /\ emitted' = <<>>
       /\ ( /\ lastOp'.op = "cloudSettled" /\ lastOp'.s = s
            /\ pipe[s].viaLocal # "none" )
            => /\ pipe'[s] = NoPipe
               /\ lastOp'.result = "text"
                    => /\ lastOp'.out = Returned("openai-fallback")
                       /\ emitted' = <<"complete", "state:idle">>]_vars

C17_Witness ==
  /\ lastOp.op = "cloudSettled"
  /\ lastOp.out = Returned("openai-fallback")
  /\ emitted = <<"complete", "state:idle">>

\* C18: when the local engine called first failed with message X and the cloud
\* fallback then fails with message Y, one error is reported and the message of
\* the error thrown to processAudio contains both X and Y.
C18_LocalThenCloudFailure ==
  [][\A s \in Sessions :
       ( /\ lastOp'.op = "cloudSettled" /\ lastOp'.s = s
         /\ pipe[s].viaLocal # "none"
         /\ lastOp'.result = "failure" )
         => /\ lastOp'.out.kind = "threw"
            /\ Contains(lastOp'.out.message, pipe[s].errors[1])
            /\ Contains(lastOp'.out.message, CloudThrown)
            /\ emitted' = <<"error", "state:idle">>]_vars

C18_Witness ==
  /\ lastOp.op = "cloudSettled"
  /\ lastOp.out.kind = "threw"
  /\ Contains(lastOp.out.message, LocalMessage)
  /\ Contains(lastOp.out.message, CloudThrown)
  /\ emitted = <<"error", "state:idle">>

\* C19: when the cloud path called first failed with cause X, in cloud mode with
\* the local fallback enabled, the local engine is called once; when that call
\* fails with cause Y, thrown or returned as {success: false, message: Y}, one
\* error is reported and its message contains both X and Y.
C19_CloudThenLocalFailure ==
  [][\A s \in Sessions :
       /\ ( /\ lastOp'.op = "cloudSettled" /\ lastOp'.s = s
            /\ lastOp'.result = "failure"
            /\ pipe[s].allowLocalFallback /\ ~pipe[s].useLocalWhisper )
            => (pipe'[s].stage = "localFallback" /\ pipe'[s].calls = 2)
       /\ ( /\ lastOp'.op = "localFallbackSettled" /\ lastOp'.s = s
            /\ pipe[s].viaLocal = "none"
            /\ lastOp'.result # "text" )
            => /\ lastOp'.out.kind = "threw"
               /\ Contains(lastOp'.out.message, CloudThrown)
               /\ Contains(lastOp'.out.message, LocalResultMessage(lastOp'.result))
               /\ emitted' = <<"error", "state:idle">>]_vars

\* C20: a run makes at most two backend transcription calls, and the local
\* fallback of the cloud path is never started by a run that reached the cloud
\* path as the fallback of a local engine.
C20_AtMostOneFallback ==
  \A s \in Sessions :
    /\ pipe[s].calls <= 2
    /\ pipe[s].stage = "localFallback" => pipe[s].viaLocal = "none"

C20_Witness ==
  /\ lastOp.op = "cloudSettled"
  /\ lastOp.fallbackEnabled
  /\ lastOp.out.kind = "threw"
  /\ Contains(lastOp.out.message, <<". OpenAI fallback also failed: ">>)

\* ---------------------------------------------------------------------------
\* One call of processAudio taken alone, with its texts
\* ---------------------------------------------------------------------------
\* Strings are sequences of characters.  A backend answer is [result, text]:
\* result as in BackendResults, text the transcript of a "text" answer (a
\* non-empty string, possibly only white space).

RawTexts == {<<"a">>, <<" ", "a", " ">>, <<" ">>}
\* ReasoningService.processText: returns the text changed, returns "", or throws
ReasoningBehaviours == {"appends", "empty", "throws"}
Engines == {"whisper", "parakeet"}

Answers(results) ==
  {[result |-> "text", text |-> x] : x \in RawTexts}
    \cup {[result |-> r, text |-> <<>>] : r \in results \ {"text"}}

RECURSIVE TrimStart(_)
TrimStart(text) ==
  IF text # <<>> /\ Head(text) = " " THEN TrimStart(Tail(text)) ELSE text

RECURSIVE TrimEnd(_)
TrimEnd(text) ==
  IF text # <<>> /\ text[Len(text)] = " "
  THEN TrimEnd(SubSeq(text, 1, Len(text) - 1))
  ELSE text

\* String.prototype.trim
Trim(text) == TrimEnd(TrimStart(text))

ReasoningThrown == <<"reasoning error">>

TextResult(text, source) ==
  [kind |-> "returned", success |-> TRUE, text |-> text, source |-> source]
Failure(message) == [kind |-> "threw", message |-> message]

\* ReasoningService.processText(text, model, agentName)
ProcessText(text, reasoning) ==
  IF reasoning = "appends" THEN TextResult(text \o <<"!">>, "reasoning")
  ELSE IF reasoning = "empty" THEN TextResult(<<>>, "reasoning")
  ELSE Failure(ReasoningThrown)

ReasoningFailureRethrown(normalizedText, failure) == failure

\* the catch block of processTranscription: log, fall through to the raw text
ReasoningFailureCaught(normalizedText, failure) == TextResult(normalizedText, "raw")

\* ReasoningService.isAvailable(): resolves true, resolves false, or throws
ProbeOutcomes == {"available", "unavailable", "throws"}

\* what isReasoningAvailable makes of the probe: its value, false when it throws
ProbeValue(outcome) == outcome = "available"

\* isReasoningAvailable() during the run, the preference being on
UseReasoning(c) == ProbeValue(c.isAvailable)

\* processTranscription(text, source) under preferences c
ProcessTranscription(text, c) ==
  LET normalizedText == Trim(text)
  IN IF ~c.reasoningModel THEN TextResult(normalizedText, "raw")
     ELSE IF UseReasoning(c)
          THEN LET r == ProcessText(normalizedText, c.reasoning)
               IN IF r.kind = "returned" THEN r
                  ELSE ReasoningFailureCaught(normalizedText, r)
          ELSE TextResult(normalizedText, "raw")

\* text || result.text
ProcessedOrRaw(text, raw) == IF text # <<>> THEN text ELSE raw

\* the local fallback in the catch block of processWithOpenAIAPI, answered a
LocalFallback(a, error, c) ==
  LET text == ProcessTranscription(a.text, c)
      fallbackError ==
        IF a.result = "failure" THEN LocalThrown
        ELSE IF a.result = "text" /\ text.kind = "threw" THEN text.message
        ELSE error
  IN IF a.result = "text" /\ text.kind = "returned" /\ text.text # <<>>
     THEN TextResult(text.text, "local-fallback")
     ELSE Failure(CloudAndFallbackFailed(error, fallbackError))

\* the catch block of processWithOpenAIAPI
CloudCatch(error, c) ==
  IF CloudFallsBackToLocal(c) THEN LocalFallback(c.fallback, error, c)
  ELSE Failure(error)

\* processWithOpenAIAPI, the request answered c.cloud
ProcessWithOpenAIAPI(c) ==
  LET a == c.cloud
      text == ProcessTranscription(a.text, c)
  IN IF a.result = "text" /\ Len(Trim(a.text)) > 0
     THEN IF text.kind = "returned"
          THEN TextResult(text.text, CloudSource(UseReasoning(c)))
          ELSE CloudCatch(text.message, c)
     ELSE CloudCatch(CloudThrown, c)

\* the catch block of processWithLocalWhisper / processWithLocalParakeet
LocalCatch(engine, message, c) ==
  IF IsNoAudio(message) THEN Failure(message)
  ELSE IF c.allowOpenAIFallback /\ c.useLocalWhisper
       THEN LET f == ProcessWithOpenAIAPI(c)
            IN IF f.kind = "returned"
               THEN [f EXCEPT !.source = FallbackSource(f.source)]
               ELSE Failure(LocalAndFallbackFailed(engine, message, f.message))
       ELSE Failure(LocalFailed(engine, message))

\* processWithLocalWhisper / processWithLocalParakeet, the engine answered c.local
ProcessWithLocal(engine, c) ==
  LET a == c.local
      text == ProcessTranscription(a.text, c)
  IN IF a.result = "text"
     THEN IF text.kind = "returned"
          THEN TextResult(ProcessedOrRaw(text.text, a.text), LocalSource(engine))
          ELSE LocalCatch(engine, text.message, c)
     ELSE LocalCatch(engine, LocalResultMessage(a.result), c)

\* the first transcript of the run, if its first backend gave one
FirstAnswer(c) == IF c.useLocalWhisper THEN c.local ELSE c.cloud

\* the parsed value of localStorage "customDictionary": no terms, or two
Dictionaries == {<<>>, <<"x", "y">>}

\* Array.prototype.join(", ")
RECURSIVE Join(_)
Join(terms) ==
  IF Len(terms) <= 1 THEN terms
  ELSE <<terms[1], ", ">> \o Join(Tail(terms))

\* getCustomDictionaryPrompt: <<>> for null
GetCustomDictionaryPrompt(c) ==
  IF Len(c.customDictionary) > 0 THEN Join(c.customDictionary) ELSE <<>>

\* the options or form each backend call of the run is made with: the local
\* engine of the run, the cloud API, the local engine as the cloud's fallback
Requests(c) ==
  LET prompt == GetCustomDictionaryPrompt(c)
      cloud == [engine |-> "cloud", prompt |-> prompt]
      text == ProcessTranscription(FirstAnswer(c).text, c)
      message == IF FirstAnswer(c).result = "text" THEN text.message
                 ELSE LocalResultMessage(FirstAnswer(c).result)
  IN IF c.useLocalWhisper
     THEN {[engine |-> c.engine,
            prompt |-> IF c.engine = "whisper" THEN prompt ELSE <<>>]}
            \cup IF /\ ~(c.local.result = "text" /\ text.kind = "returned")
                    /\ ~IsNoAudio(message)
                    /\ c.allowOpenAIFallback
                 THEN {cloud} ELSE {}
     ELSE {cloud}
            \cup IF /\ ~(/\ c.cloud.result = "text"
                          /\ Len(Trim(c.cloud.text)) > 0
                          /\ text.kind = "returned")
                    /\ CloudFallsBackToLocal(c)
                 THEN {[engine |-> "local-fallback", prompt |-> <<>>]} ELSE {}

\* the dispatch of processAudio
DispatchPath(c) ==
  IF c.useLocalWhisper THEN ProcessWithLocal(c.engine, c) ELSE ProcessWithOpenAIAPI(c)

DispatchRuns ==
  [path : {"processAudio"},
   useLocalWhisper : BOOLEAN, engine : Engines,
   allowOpenAIFallback : BOOLEAN, allowLocalFallback : BOOLEAN,
   reasoningModel : BOOLEAN, isAvailable : ProbeOutcomes, reasoning : ReasoningBehaviours,
   local : Answers(BackendResults), cloud : Answers({"text", "failure"}),
   fallback : Answers(BackendResults), customDictionary : Dictionaries]

DispatchInit ==
  /\ Constructed
  /\ HookMounted
  /\ RequestIdle
  /\ EndpointConstructed
  /\ DeviceIdle
  /\ ReasoningConstructed
  /\ NoStream
  /\ dispatchRun \in DispatchRuns
  /\ dispatchResult = NoResult
  /\ processedText = NoResult
  /\ requests = {}

Dispatch ==
  /\ dispatchResult = NoResult
  /\ dispatchResult' = DispatchPath(dispatchRun)
  /\ requests' = Requests(dispatchRun)
  /\ UNCHANGED <<vars, obsVars, requestVars, endpointVars, deviceVars, reasonVars, streamVars, dispatchRun, processedText>>

ApplyProcessTranscription ==
  /\ processedText = NoResult
  /\ FirstAnswer(dispatchRun).result = "text"
  /\ processedText' = ProcessTranscription(FirstAnswer(dispatchRun).text, dispatchRun)
  /\ UNCHANGED <<vars, obsVars, requestVars, endpointVars, deviceVars, reasonVars, streamVars, dispatchRun, dispatchResult,
                 requests>>

DispatchNext == Dispatch \/ ApplyProcessTranscription

allVars == <<vars, auxVars>>
DispatchSpec == DispatchInit /\ [][DispatchNext]_allVars

\* the backend answer a result with this source was made from
AnswerBehind(c, source) ==
  IF source \in {"local", "local-parakeet"} THEN c.local
  ELSE IF source = "local-fallback" THEN c.fallback
  ELSE c.cloud

\* C21: the text of every result a dispatch path returns is what one call of
\* processTranscription makes of the raw transcript of the backend behind it.
C21_TextIsProcessedOnce ==
  dispatchResult.kind = "returned"
    => LET a == AnswerBehind(dispatchRun, dispatchResult.source)
       IN /\ a.result = "text"
          /\ dispatchResult.text = ProcessTranscription(a.text, dispatchRun).text

\* the reasoning stage of run c does not produce a text: no reasoning model is
\* configured, reasoning is unavailable (or its probe throws), or processText throws
ReasoningDegrades(c) ==
  ~c.reasoningModel \/ c.isAvailable # "available" \/ c.reasoning = "throws"

\* C22: when the reasoning stage does not produce a text, processTranscription
\* returns the trimmed raw transcript, and the run returns the result of the
\* backend called first: no error is raised and no fallback is started (a cloud
\* transcript that is empty once trimmed is refused before the reasoning stage).
C22_ReasoningFailureDegrades ==
  LET c == dispatchRun
      a == FirstAnswer(c)
  IN (c # NoRun /\ a.result = "text" /\ ReasoningDegrades(c))
       => /\ processedText # NoResult
               => (processedText.kind = "returned" /\ processedText.text = Trim(a.text))
          /\ (dispatchResult # NoResult /\ (c.useLocalWhisper \/ Trim(a.text) # <<>>))
               => /\ dispatchResult.kind = "returned"
                  /\ dispatchResult.source =
                       IF c.useLocalWhisper THEN LocalSource(c.engine)
                       ELSE CloudSource(UseReasoning(c))

C22_Witness ==
  /\ dispatchRun # NoRun
  /\ dispatchRun.reasoningModel
  /\ dispatchRun.isAvailable = "available"
  /\ dispatchRun.reasoning = "throws"
  /\ ~dispatchRun.useLocalWhisper
  /\ dispatchRun.allowLocalFallback
  /\ processedText = TextResult(<<"a">>, "raw")
  /\ dispatchResult = TextResult(<<"a">>, "openai-reasoned")

\* C30: every result the dispatcher returns has success = true, a text that is
\* present, and a source among the five listed values.
C30_ResultShape ==
  dispatchResult.kind = "returned"
    => /\ dispatchResult.success
       /\ dispatchResult.text # <<>>
       /\ dispatchResult.source \in
            {"local", "local-parakeet", "openai", "openai-fallback", "local-fallback"}

\* ---------------------------------------------------------------------------
\* isReasoningAvailable and its cache
\* ---------------------------------------------------------------------------
\* Time is counted in units of 10 s.  A call reads the preference and the clock,
\* then either returns at once or awaits ReasoningService.isAvailable(); other
\* tasks, further calls included, run while it waits.

MaxClock == 5
MaxProbes == 2
REASONING_CACHE_TTL == 3

\* localStorage.getItem("useReasoningModel"): null or a string
Preferences == {"null", "true", "false"}

\* storedValue === "true" || (!!storedValue && storedValue !== "false")
UseReasoningPreference(storedValue) ==
  storedValue = "true" \/ (storedValue # "null" /\ storedValue # "false")

\* cacheValid (lines 814-817)
CacheValid(now, storedValue) ==
  /\ now < reasoningAvailabilityCache.expiresAt
  /\ cachedReasoningPreference = storedValue

\* An evaluation made at time now under preference storedValue writes the cache.
\* probed keeps it while it has not expired; still: the preference has not
\* changed since it was written.
WriteCache(value, now, storedValue) ==
  /\ reasoningAvailabilityCache' = [value |-> value, expiresAt |-> now + REASONING_CACHE_TTL]
  /\ cachedReasoningPreference' = storedValue
  /\ probed' = IF clock < now + REASONING_CACHE_TTL
               THEN probed \cup {[t |-> now, p |-> storedValue, value |-> value,
                                  still |-> storedValue = useReasoningModel]}
               ELSE probed

SetPreference(v) ==
  /\ v # useReasoningModel
  /\ useReasoningModel' = v
  /\ probed' = {[e EXCEPT !.still = FALSE] : e \in probed}
  /\ UNCHANGED <<vars, obsVars, requestVars, endpointVars, deviceVars, dispatchVars, streamVars, clock, reasoningAvailabilityCache,
                 cachedReasoningPreference, probing, lastCall>>

Tick ==
  /\ clock < MaxClock
  /\ clock' = clock + 1
  /\ probed' = {e \in probed : clock + 1 < e.t + REASONING_CACHE_TTL}
  /\ UNCHANGED <<vars, obsVars, requestVars, endpointVars, deviceVars, dispatchVars, streamVars, useReasoningModel, reasoningAvailabilityCache,
                 cachedReasoningPreference, probing, lastCall>>

\* isReasoningAvailable() up to its return or its await
IsReasoningAvailable ==
  LET storedValue == useReasoningModel
      now == clock
  IN /\ IF CacheValid(now, storedValue)
        THEN /\ lastCall' = [op |-> "returned", cached |-> TRUE,
                             value |-> reasoningAvailabilityCache.value]
             /\ UNCHANGED <<reasoningAvailabilityCache, cachedReasoningPreference,
                            probing, probed>>
        ELSE IF ~UseReasoningPreference(storedValue)
        THEN /\ WriteCache(FALSE, now, storedValue)
             /\ lastCall' = [op |-> "returned", cached |-> FALSE, value |-> FALSE]
             /\ UNCHANGED probing
        ELSE /\ Cardinality(probing) < MaxProbes
             /\ probing' = probing \cup {[t |-> now, p |-> storedValue]}
             /\ lastCall' = [op |-> "awaiting", cached |-> FALSE, value |-> FALSE]
             /\ UNCHANGED <<reasoningAvailabilityCache, cachedReasoningPreference, probed>>
     /\ UNCHANGED <<vars, obsVars, requestVars, endpointVars, deviceVars, dispatchVars, streamVars, clock, useReasoningModel>>

\* ReasoningService.isAvailable() settles for the call e (lines 840-869)
ProbeSettle(e, outcome) ==
  /\ e \in probing
  /\ probing' = probing \ {e}
  /\ WriteCache(ProbeValue(outcome), e.t, e.p)
  /\ lastCall' = [op |-> "settled", cached |-> FALSE, value |-> ProbeValue(outcome)]
  /\ UNCHANGED <<vars, obsVars, requestVars, endpointVars, deviceVars, dispatchVars, streamVars, clock, useReasoningModel>>

ReasoningInit ==
  /\ Constructed
  /\ HookMounted
  /\ RequestIdle
  /\ EndpointConstructed
  /\ DeviceIdle
  /\ NoDispatch
  /\ ReasoningConstructed
  /\ NoStream

ReasoningNext ==
  \/ \E v \in Preferences : SetPreference(v)
  \/ Tick
  \/ IsReasoningAvailable
  \/ \E e \in [t : 1..MaxClock, p : Preferences], o \in ProbeOutcomes : ProbeSettle(e, o)

ReasoningSpec == ReasoningInit /\ [][ReasoningNext]_allVars

ReasoningTypeOK ==
  /\ clock \in 1..MaxClock
  /\ useReasoningModel \in Preferences
  /\ reasoningAvailabilityCache \in [value : BOOLEAN, expiresAt : 0..(MaxClock + REASONING_CACHE_TTL)]
  /\ cachedReasoningPreference \in Preferences
  /\ probing \subseteq [t : 1..MaxClock, p : Preferences]
  /\ Cardinality(probing) <= MaxProbes
  /\ probed \subseteq [t : 1..MaxClock, p : Preferences, value : BOOLEAN, still : BOOLEAN]
  /\ lastCall \in [op : {"none", "returned", "awaiting", "settled"},
                   cached : BOOLEAN, value : BOOLEAN]

\* C23: after an evaluation made at time t under preference p, a call made
\* before t + 30 s while the preference is still p returns the value that
\* evaluation cached, without probing; and a call returns a cached value only if
\* an evaluation under the current preference, less than 30 s old, cached it.
C23_ReasoningCache ==
  [][(lastCall'.op \in {"returned", "awaiting"} /\ UNCHANGED <<clock, useReasoningModel>>)
       => /\ \A e \in probed :
               e.still => (lastCall'.cached /\ lastCall'.value = e.value)
          /\ lastCall'.cached
               => \E e \in probed : e.p = useReasoningModel /\ e.value = lastCall'.value]_allVars

\* ---------------------------------------------------------------------------
\* readTranscriptionStream
\* ---------------------------------------------------------------------------
\* The response text is a sequence of tokens: "data:", " ", "\n", "[DONE]", and
\* for a JSON payload "{", its content, "}".  The content of a payload names its
\* event; a text is the sequence of its letters.

MaxRecords == 3

Events == {"delta:a", "delta:b", "segment:a", "done:c"}

\* payload.type
EventType(e) ==
  CASE e \in {"delta:a", "delta:b"} -> "transcript.text.delta"
    [] e = "segment:a" -> "transcript.text.segment"
    [] e = "done:c" -> "transcript.text.done"

\* payload.delta, or payload.text
EventText(e) ==
  CASE e \in {"delta:a", "segment:a"} -> <<"a">>
    [] e = "delta:b" -> <<"b">>
    [] e = "done:c" -> <<"c">>

\* one record as the server writes it: "data: <json>\n" and an empty line
RecordText(e) ==
  IF e = "[DONE]" THEN <<"data:", " ", "[DONE]", "\n", "\n">>
  ELSE <<"data:", " ", "{", e, "}", "\n", "\n">>

\* buffer.split("\n")
RECURSIVE SplitLines(_)
SplitLines(text) ==
  IF \A i \in DOMAIN text : text[i] # "\n" THEN <<text>>
  ELSE LET i == CHOOSE k \in DOMAIN text :
                  text[k] = "\n" /\ \A j \in 1..(k - 1) : text[j] # "\n"
       IN <<SubSeq(text, 1, i - 1)>> \o SplitLines(SubSeq(text, i + 1, Len(text)))

StartsWith(text, prefix) ==
  Len(text) >= Len(prefix) /\ SubSeq(text, 1, Len(prefix)) = prefix

NotSpace(x) == x # " "

\* JSON.parse(data) returns: data is one whole object, white space apart
Parses(data) ==
  LET j == SelectSeq(data, NotSpace)
  IN Len(j) = 3 /\ j[1] = "{" /\ j[2] \in Events /\ j[3] = "}"

ParsedEvent(data) == SelectSeq(data, NotSpace)[2]

\* handleEvent(payload) (lines 976-1012)
HandleEvent(r, e) ==
  IF EventType(e) \in {"transcript.text.delta", "transcript.text.segment"}
  THEN [r EXCEPT !.collectedText = r.collectedText \o EventText(e)]
  ELSE [r EXCEPT !.finalText = <<EventText(e)>>]

\* buffer += line + "\n"
HeldBack(r, line) == [r EXCEPT !.buffer = r.buffer \o line \o <<"\n">>]

\* the body of the loop over the lines (lines 1045-1084)
ProcessLine(r, line) ==
  LET trimmedLine == Trim(line)
      isData == StartsWith(trimmedLine, <<"data:">>)
      data == IF StartsWith(trimmedLine, <<"data:", " ">>)
              THEN SubSeq(trimmedLine, 3, Len(trimmedLine))
              ELSE Trim(SubSeq(trimmedLine, 2, Len(trimmedLine)))
  IN IF trimmedLine = <<>> THEN r
     ELSE IF ~isData THEN HeldBack(r, line)
     ELSE IF data = <<"[DONE]">>
          THEN [r EXCEPT !.finalText =
                  IF r.finalText # <<>> THEN r.finalText ELSE <<r.collectedText>>]
     ELSE IF Parses(data) THEN HandleEvent(r, ParsedEvent(data))
     ELSE HeldBack(r, line)

RECURSIVE ProcessLines(_, _)
ProcessLines(r, lines) ==
  IF lines = <<>> THEN r
  ELSE ProcessLines(ProcessLine(r, Head(lines)), Tail(lines))

\* one turn of the read loop, the read delivering chunk (lines 1031-1085)
ProcessChunk(r, chunk) ==
  ProcessLines([r EXCEPT !.buffer = <<>>], SplitLines(r.buffer \o chunk))

CollectedOnly(r) == r.collectedText

\* finalText ?? collectedText
FinalOrCollected(r) == IF r.finalText # <<>> THEN r.finalText[1] ELSE r.collectedText

RECURSIVE Flatten(_)
Flatten(texts) == IF texts = <<>> THEN <<>> ELSE Head(texts) \o Flatten(Tail(texts))

\* the streams: up to MaxRecords events, then the done-marker or nothing
RECURSIVE EventSeqs(_)
EventSeqs(n) ==
  IF n = 0 THEN {<<>>}
  ELSE LET shorter == EventSeqs(n - 1)
       IN shorter \cup {Append(s, e) : s \in {x \in shorter : Len(x) = n - 1}, e \in Events}

Streams == EventSeqs(MaxRecords) \cup {Append(s, "[DONE]") : s \in EventSeqs(MaxRecords)}

\* how the reads cut the response: every record in a read of its own, the whole
\* response in one read, or record i cut after its k-th token
Deliveries(records) ==
  {[kind |-> "whole", i |-> 0, k |-> 0], [kind |-> "single", i |-> 0, k |-> 0]}
    \cup {[kind |-> "split", i |-> i, k |-> k] :
            i \in DOMAIN records, k \in 1..(Len(RecordText("done:c")) - 1)}

RECURSIVE ChunksOf(_, _, _)
ChunksOf(records, d, n) ==
  IF n > Len(records) THEN <<>>
  ELSE LET text == RecordText(records[n])
           rest == ChunksOf(records, d, n + 1)
       IN IF d.kind = "split" /\ d.i = n /\ d.k < Len(text)
          THEN <<SubSeq(text, 1, d.k), SubSeq(text, d.k + 1, Len(text))>> \o rest
          ELSE <<text>> \o rest

Chunks(records, d) ==
  IF d.kind = "single"
  THEN IF records = <<>> THEN <<>> ELSE <<Flatten(ChunksOf(records, d, 1))>>
  ELSE ChunksOf(records, d, 1)

StreamInit ==
  /\ Constructed
  /\ HookMounted
  /\ RequestIdle
  /\ EndpointConstructed
  /\ DeviceIdle
  /\ NoDispatch
  /\ ReasoningConstructed
  /\ \E s \in Streams : \E d \in Deliveries(s) :
       /\ streamRecords = [records |-> s, delivery |-> d]
       /\ streamChunks = Chunks(s, d)
  /\ streamReader = NewReader
  /\ streamResult = <<>>

\* reader.read() resolves with a chunk
Read ==
  /\ streamResult = <<>>
  /\ streamChunks # <<>>
  /\ streamReader' = ProcessChunk(streamReader, Head(streamChunks))
  /\ streamChunks' = Tail(streamChunks)
  /\ UNCHANGED <<vars, obsVars, requestVars, endpointVars, deviceVars, dispatchVars, reasonVars, streamRecords, streamResult>>

\* reader.read() resolves with done: the loop ends and the function returns
ReadDone ==
  /\ streamResult = <<>>
  /\ streamChunks = <<>>
  /\ streamResult' = <<FinalOrCollected(streamReader)>>
  /\ UNCHANGED <<vars, obsVars, requestVars, endpointVars, deviceVars, dispatchVars, reasonVars, streamRecords, streamChunks, streamReader>>

StreamNext == Read \/ ReadDone

StreamSpec == StreamInit /\ [][StreamNext]_allVars

\* the events of a stream that carry kind-of-text t, in arrival order
RECURSIVE TextsOf(_, _)
TextsOf(records, types) ==
  IF records = <<>> THEN <<>>
  ELSE (IF Head(records) # "[DONE]" /\ EventType(Head(records)) \in types
        THEN <<EventText(Head(records))>> ELSE <<>>) \o TextsOf(Tail(records), types)

\* C24: when every record arrives whole, readTranscriptionStream returns the
\* text of the done payload if the stream had one, and otherwise the delta and
\* segment fragments concatenated in arrival order.
C24_StreamResult ==
  (streamResult # <<>> /\ streamRecords.delivery.kind # "split")
    => LET done == TextsOf(streamRecords.records, {"transcript.text.done"})
           fragments == TextsOf(streamRecords.records,
                                {"transcript.text.delta", "transcript.text.segment"})
       IN streamResult[1] = IF done # <<>> THEN done[Len(done)] ELSE Flatten(fragments)

C24_Witness ==
  /\ streamRecords.records = <<"delta:a", "done:c">>
  /\ streamRecords.delivery.kind = "whole"
  /\ streamResult = << <<"c">> >>

\* the reads cut a record inside its JSON payload: the first part ends with the
\* opening brace or with the content
SplitInsidePayload ==
  LET d == streamRecords.delivery
      text == RecordText(streamRecords.records[d.i])
  IN /\ d.kind = "split"
     /\ d.k < Len(text)
     /\ text[d.k] \in {"{"} \cup Events

\* C25: when the reads cut the JSON payload of one record in two, the record is
\* applied once, after the second read: the result is the result for the same
\* text delivered in a single read.
C25_SplitRecord ==
  (streamResult # <<>> /\ SplitInsidePayload)
    => streamResult[1] =
         FinalOrCollected(ProcessChunk(NewReader,
           Flatten(ChunksOf(streamRecords.records, streamRecords.delivery, 1))))

\* ---------------------------------------------------------------------------
\* getTranscriptionEndpoint and its cache
\* ---------------------------------------------------------------------------
\* A URL is a sequence of tokens: scheme, host, path segments, "/" for a
\* trailing slash, " " for surrounding white space.  A stored value of null is
\* "null" for the provider and <<"null">> for the base URL.

Providers == {"null", "openai", "groq", "custom"}

\* stored base URLs: none, empty, blank, and a host with either scheme, with or
\* without the transcription path, a trailing slash, surrounding white space
BaseUrls ==
  {<<"null">>, <<>>, <<" ">>}
    \cup {pad \o <<scheme, "host">> \o path \o slash \o pad :
            scheme \in {"https://", "http://"},
            path \in {<<>>, <<"/audio/transcriptions">>},
            slash \in {<<>>, <<"/">>},
            pad \in {<<>>, <<" ">>}}

\* API_ENDPOINTS of config/constants
TRANSCRIPTION_BASE == <<"https://", "api.openai.com", "/v1">>
GROQ_BASE == <<"https://", "api.groq.com", "/openai/v1">>
TRANSCRIPTION == TRANSCRIPTION_BASE \o <<"/audio/transcriptions">>

RECURSIVE StripTrailingSlash(_)
StripTrailingSlash(url) ==
  IF url # <<>> /\ url[Len(url)] = "/"
  THEN StripTrailingSlash(SubSeq(url, 1, Len(url) - 1))
  ELSE url

\* normalizeBaseUrl of config/constants: trim, strip the trailing slash
NormalizeBaseUrl(base) == StripTrailingSlash(Trim(base))

\* isSecureEndpoint of utils/urlUtils: the URL uses the secure transport scheme
IsSecureEndpoint(url) == url # <<>> /\ url[1] = "https://"

\* buildApiUrl of config/constants
BuildApiUrl(base, path) == base \o <<path>>

\* localStorage.getItem("cloudTranscriptionProvider") || "openai"
CurrentProvider == IF cloudTranscriptionProvider = "null" THEN "openai" ELSE cloudTranscriptionProvider

\* localStorage.getItem("cloudTranscriptionBaseUrl") || ""
CurrentBaseUrl == IF cloudTranscriptionBaseUrl = <<"null">> THEN <<>> ELSE cloudTranscriptionBaseUrl

\* base (lines 1484-1492)
BaseFor(provider, baseUrl) ==
  IF provider = "custom"
  THEN IF Trim(baseUrl) # <<>> THEN Trim(baseUrl) ELSE TRANSCRIPTION_BASE
  ELSE IF provider = "groq" THEN GROQ_BASE
  ELSE TRANSCRIPTION_BASE

InsecureAccepted(provider, normalizedBase) == FALSE

\* isCustomEndpoint && !isSecureEndpoint(normalizedBase)
InsecureRejected(provider, normalizedBase) ==
  provider = "custom" /\ ~IsSecureEndpoint(normalizedBase)

\* the resolution of getTranscriptionEndpoint, cache apart (lines 1481-1558)
ResolveEndpoint(provider, baseUrl) ==
  LET normalizedBase == NormalizeBaseUrl(BaseFor(provider, baseUrl))
  IN IF normalizedBase = <<>> THEN TRANSCRIPTION
     ELSE IF InsecureRejected(provider, normalizedBase) THEN TRANSCRIPTION
     ELSE IF normalizedBase[Len(normalizedBase)] = "/audio/transcriptions"
          THEN normalizedBase
     ELSE BuildApiUrl(normalizedBase, "/audio/transcriptions")

CacheStaleByProviderOnly(provider, baseUrl) ==
  /\ cachedTranscriptionEndpoint # <<>>
  /\ cachedEndpointProvider # provider

\* the invalidation test (lines 1459-1463)
CacheStale(provider, baseUrl) ==
  /\ cachedTranscriptionEndpoint # <<>>
  /\ (cachedEndpointProvider # provider \/ cachedEndpointBaseUrl # baseUrl)

SetProvider(v) ==
  /\ v # cloudTranscriptionProvider
  /\ cloudTranscriptionProvider' = v
  /\ lastEndpoint' = <<>>
  /\ UNCHANGED <<vars, obsVars, requestVars, dispatchVars, reasonVars, streamVars, deviceVars, cloudTranscriptionBaseUrl,
                 cachedTranscriptionEndpoint, cachedEndpointProvider,
                 cachedEndpointBaseUrl>>

SetBaseUrl(v) ==
  /\ v # cloudTranscriptionBaseUrl
  /\ cloudTranscriptionBaseUrl' = v
  /\ lastEndpoint' = <<>>
  /\ UNCHANGED <<vars, obsVars, requestVars, dispatchVars, reasonVars, streamVars, deviceVars, cloudTranscriptionProvider,
                 cachedTranscriptionEndpoint, cachedEndpointProvider,
                 cachedEndpointBaseUrl>>

GetTranscriptionEndpoint ==
  LET cached == IF CacheStale(CurrentProvider, CurrentBaseUrl) THEN <<>>
                ELSE cachedTranscriptionEndpoint
  IN /\ IF cached # <<>>
        THEN /\ lastEndpoint' = <<cached>>
             /\ UNCHANGED <<cachedTranscriptionEndpoint, cachedEndpointProvider,
                            cachedEndpointBaseUrl>>
        ELSE /\ cachedTranscriptionEndpoint' = ResolveEndpoint(CurrentProvider, CurrentBaseUrl)
             /\ cachedEndpointProvider' = CurrentProvider
             /\ cachedEndpointBaseUrl' = CurrentBaseUrl
             /\ lastEndpoint' = <<ResolveEndpoint(CurrentProvider, CurrentBaseUrl)>>
     /\ UNCHANGED <<vars, obsVars, requestVars, dispatchVars, reasonVars, streamVars, deviceVars,
                    cloudTranscriptionProvider, cloudTranscriptionBaseUrl>>

EndpointNext ==
  \/ \E v \in Providers : SetProvider(v)
  \/ \E v \in BaseUrls : SetBaseUrl(v)
  \/ GetTranscriptionEndpoint

\* the stored settings change and the endpoint is asked for, in any order
EndpointSpec == Init /\ [][EndpointNext]_allVars

\* C26: whatever changes of provider and base URL came before, a call of
\* getTranscriptionEndpoint returns the endpoint that the resolution computes
\* for the current provider and base URL.
C26_EndpointCacheCoherent ==
  lastEndpoint # <<>>
    => lastEndpoint = <<ResolveEndpoint(CurrentProvider, CurrentBaseUrl)>>

\* the base URL was changed under a filled cache, then the endpoint was asked for again
C26_Witness ==
  /\ cloudTranscriptionProvider = "custom"
  /\ cloudTranscriptionBaseUrl = <<"https://", "host", "/">>
  /\ cachedEndpointBaseUrl = <<"https://", "host", "/">>
  /\ lastEndpoint = << <<"https://", "host", "/audio/transcriptions">> >>

\* C27: with provider custom and a base URL whose scheme is not the secure one,
\* the call returns the built-in default endpoint; with provider openai or groq
\* it returns the provider's built-in endpoint whatever the base URL is.
C27_InsecureOrKnownProvider ==
  lastEndpoint # <<>>
    => /\ ( /\ CurrentProvider = "custom"
            /\ Contains(CurrentBaseUrl, <<"http://">>) )
            => lastEndpoint = <<TRANSCRIPTION>>
       /\ CurrentProvider = "openai" => lastEndpoint = <<TRANSCRIPTION>>
       /\ CurrentProvider = "groq"
            => lastEndpoint = <<BuildApiUrl(GROQ_BASE, "/audio/transcriptions")>>

C27_Witness ==
  /\ cloudTranscriptionProvider = "custom"
  /\ cloudTranscriptionBaseUrl = <<"http://", "host">>
  /\ cachedEndpointBaseUrl = <<"http://", "host">>
  /\ lastEndpoint = <<TRANSCRIPTION>>

\* ---------------------------------------------------------------------------
\* getAudioConstraints
\* ---------------------------------------------------------------------------

MicPreferences == {"null", "true", "false"}

SelectedIds == {"null", "", "usb", "mic"}

\* what navigator.mediaDevices.enumerateDevices() answers: it rejects, or lists
\* devices, among them a built-in and an external microphone and a built-in camera
Enumerations ==
  LET mic == [kind |-> "audioinput", label |-> "built-in", deviceId |-> "mic"]
      usb == [kind |-> "audioinput", label |-> "external", deviceId |-> "usb"]
      cam == [kind |-> "videoinput", label |-> "built-in", deviceId |-> "cam"]
  IN {[rejects |-> TRUE, devices |-> <<>>]}
       \cup {[rejects |-> FALSE, devices |-> d] :
               d \in {<<>>, <<usb>>, <<cam, usb>>, <<usb, mic>>, <<cam, mic>>, <<mic>>}}

\* isBuiltInMicrophone of utils/audioDeviceUtils
IsBuiltInMicrophone(label) == label = "built-in"

SelectedWheneverStored(preferBuiltIn, selectedDeviceId) == selectedDeviceId # ""

\* !preferBuiltIn && selectedDeviceId
UsesSelected(preferBuiltIn, selectedDeviceId) ==
  ~preferBuiltIn /\ selectedDeviceId # ""

SetMicPreference(p, d) ==
  /\ <<p, d>> # <<preferBuiltInMic, selectedMicDeviceId>>
  /\ preferBuiltInMic' = p
  /\ selectedMicDeviceId' = d
  /\ UNCHANGED <<vars, obsVars, requestVars, dispatchVars, reasonVars, streamVars, endpointVars, lastConstraints>>

GetAudioConstraints(enumeration) ==
  LET preferBuiltIn == preferBuiltInMic # "false"
      selectedDeviceId == IF selectedMicDeviceId = "null" THEN "" ELSE selectedMicDeviceId
      audioInputs == SelectSeq(enumeration.devices, LAMBDA d : d.kind = "audioinput")
      builtIns == SelectSeq(audioInputs, LAMBDA d : IsBuiltInMicrophone(d.label))
      builtInMic == IF preferBuiltIn /\ ~enumeration.rejects /\ builtIns # <<>>
                    THEN builtIns[1].deviceId ELSE ""
  IN /\ lastConstraints' =
          [op |-> "returned", preferBuiltIn |-> preferBuiltIn,
           selectedDeviceId |-> selectedDeviceId, builtInMic |-> builtInMic,
           audio |-> IF builtInMic # "" THEN builtInMic
                     ELSE IF UsesSelected(preferBuiltIn, selectedDeviceId)
                          THEN selectedDeviceId
                     ELSE "true"]
     /\ UNCHANGED <<vars, obsVars, requestVars, dispatchVars, reasonVars, streamVars, endpointVars,
                    preferBuiltInMic, selectedMicDeviceId>>

DeviceNext ==
  \/ \E p \in MicPreferences, d \in SelectedIds : SetMicPreference(p, d)
  \/ \E enumeration \in Enumerations : GetAudioConstraints(enumeration)

DeviceSpec == Init /\ [][DeviceNext]_allVars

\* C28: the built-in microphone when it is preferred and found;
\* otherwise the selected device whenever a device id is stored; the system
\* default only when neither applies.
C28_DevicePrecedence ==
  lastConstraints.op = "returned"
    => lastConstraints.audio =
         IF lastConstraints.builtInMic # "" THEN lastConstraints.builtInMic
         ELSE IF lastConstraints.selectedDeviceId # "" THEN lastConstraints.selectedDeviceId
         ELSE "true"

\* C28, by the condition the code tests: the built-in microphone when it is preferred and found; the
\* selected device when the built-in one is not preferred and a device id is
\* stored; the system default in every other case, a stored device id with an
\* absent built-in microphone included.
C28_DeviceChoice ==
  lastConstraints.op = "returned"
    => lastConstraints.audio =
         IF lastConstraints.builtInMic # "" THEN lastConstraints.builtInMic
         ELSE IF ~lastConstraints.preferBuiltIn /\ lastConstraints.selectedDeviceId # ""
              THEN lastConstraints.selectedDeviceId
         ELSE "true"

\* built-in preferred but not found, a device id stored: the system default
C28_Witness ==
  /\ lastConstraints.op = "returned"
  /\ lastConstraints.preferBuiltIn
  /\ lastConstraints.builtInMic = ""
  /\ lastConstraints.selectedDeviceId = "usb"
  /\ lastConstraints.audio = "true"

\* C29: with a non-empty custom dictionary stored, every request the run
\* sends, to the local Whisper engine, to Parakeet, to the cloud API or to the
\* local engine as the cloud's fallback, carries the terms joined by ", " as
\* its prompt.
C29_DictionaryPrompt ==
  (dispatchResult # NoResult /\ dispatchRun.customDictionary = <<"x", "y">>)
    => \A q \in requests : q.prompt = <<"x", ", ", "y">>

\* ---------------------------------------------------------------------------
\* processWithOpenAIAPI up to its fetch: model, key, optimisation, endpoint
\* ---------------------------------------------------------------------------
\* A model name is a sequence of tokens, "gpt-4o" and "whisper-large-v3" being
\* tokens of their own; <<"null">> is no stored value.  The key of provider p is
\* the string p, "null" is no key.

StoredModels ==
  {<<"null">>, <<"whisper-1">>, <<" ", "gpt-4o", "-transcribe", " ">>,
   <<"gpt-4o", "-transcribe", "-diarize">>, <<"gpt-4o", "-mini-transcribe", "-2025">>,
   <<"gpt-4o", "-audio">>, <<"whisper-large-v3", "-turbo">>}

\* the base URLs the settings are changed to while requests are made
RequestBaseUrls == {<<"null">>, <<"https://", "host">>, <<"http://", "host">>}

\* getTranscriptionModel()
GetTranscriptionModel ==
  LET model == IF cloudTranscriptionModel = <<"null">> THEN <<>> ELSE cloudTranscriptionModel
      trimmedModel == Trim(model)
      isGroqModel == StartsWith(trimmedModel, <<"whisper-large-v3">>)
      isOpenAIModel == StartsWith(trimmedModel, <<"gpt-4o">>) \/ trimmedModel = <<"whisper-1">>
  IN IF CurrentProvider = "custom"
     THEN IF trimmedModel # <<>> THEN trimmedModel ELSE <<"whisper-1">>
     ELSE IF trimmedModel # <<>> /\ CurrentProvider = "groq" /\ isGroqModel THEN trimmedModel
     ELSE IF trimmedModel # <<>> /\ CurrentProvider = "openai" /\ isOpenAIModel THEN trimmedModel
     ELSE IF CurrentProvider = "groq" THEN <<"whisper-large-v3", "-turbo">>
     ELSE <<"gpt-4o", "-mini-transcribe">>

StreamsForAnyProvider(model, provider) ==
  LET normalized == Trim(model)
  IN /\ normalized # <<>> /\ normalized # <<"whisper-1">>
     /\ \/ normalized \in {<<"gpt-4o", "-transcribe">>, <<"gpt-4o", "-transcribe", "-diarize">>}
        \/ StartsWith(normalized, <<"gpt-4o", "-mini-transcribe">>)

\* shouldStreamTranscription(model, provider)
ShouldStreamTranscription(model, provider) ==
  LET normalized == Trim(model)
  IN /\ provider = "openai"
     /\ normalized # <<>> /\ normalized # <<"whisper-1">>
     /\ \/ normalized \in {<<"gpt-4o", "-transcribe">>, <<"gpt-4o", "-transcribe", "-diarize">>}
        \/ StartsWith(normalized, <<"gpt-4o", "-mini-transcribe">>)

\* shouldOptimize: !is4oModel && !shouldSkipOptimizationForDuration && size > 1 MB
ShouldOptimize(model, shortClip, large) ==
  ~Contains(model, <<"gpt-4o">>) /\ ~shortClip /\ large

\* getAPIKey() up to its first await: the cached key, or the lookup is pending
KeyLookup(provider) ==
  IF cachedApiKey # "null" /\ cachedApiKeyProvider = provider
  THEN [state |-> "resolved", value |-> cachedApiKey]
  ELSE [state |-> "pending", value |-> "null"]

\* optimizeAudio() up to the end of the executor: new AudioContext() is outside
\* every try block, so that its throw rejects the promise
OptimizeStart(shouldOptimize, contextThrows) ==
  IF ~shouldOptimize THEN [state |-> "resolved", blob |-> "original"]
  ELSE IF contextThrows THEN [state |-> "rejected", blob |-> "none"]
  ELSE [state |-> "reading", blob |-> "none"]

\* the settings window stores a provider, a base URL and a model
ChangeSettings(provider, baseUrl, model) ==
  /\ cloudReq.stage = "none"
  /\ <<provider, baseUrl, model>> #
       <<cloudTranscriptionProvider, cloudTranscriptionBaseUrl, cloudTranscriptionModel>>
  /\ cloudTranscriptionProvider' = provider
  /\ cloudTranscriptionBaseUrl' = baseUrl
  /\ cloudTranscriptionModel' = model
  /\ lastEndpoint' = <<>>
  /\ lastRequest' = NoRequest
  /\ UNCHANGED <<vars, obsVars, dispatchVars, reasonVars, streamVars, deviceVars,
                 cachedTranscriptionEndpoint, cachedEndpointProvider, cachedEndpointBaseUrl,
                 cachedApiKey, cachedApiKeyProvider, cloudReq>>

\* processWithOpenAIAPI from its entry to the await of Promise.all
CloudRequestStart(shortClip, large, contextThrows) ==
  /\ cloudReq.stage = "none"
  /\ LET model == GetTranscriptionModel
         shouldOptimize == ShouldOptimize(model, shortClip, large)
     IN cloudReq' = [stage |-> "awaiting", model |-> model, provider |-> CurrentProvider,
                     shouldOptimize |-> shouldOptimize,
                     key |-> KeyLookup(CurrentProvider),
                     audio |-> OptimizeStart(shouldOptimize, contextThrows)]
  /\ lastRequest' = NoRequest
  /\ UNCHANGED <<vars, obsVars, dispatchVars, reasonVars, streamVars, deviceVars, endpointVars,
                 cloudTranscriptionModel, cachedApiKey, cachedApiKeyProvider>>

\* isValidApiKey(key, provider) of a key that is "valid", "invalid" (empty or
\* the placeholder) or absent
IsValidApiKey(key) == key = "valid"

\* getAPIKey() after its await: ipc is what the main process answered ("throws"
\* when the call rejects), stored what localStorage holds
KeySettle(ipc, stored) ==
  /\ cloudReq.stage = "awaiting"
  /\ cloudReq.key.state = "pending"
  /\ LET provider == cloudReq.provider
         found == (ipc # "throws" /\ IsValidApiKey(ipc)) \/ IsValidApiKey(stored)
         rejects == provider # "custom" /\ (ipc = "throws" \/ ~found)
     IN /\ cloudReq' = [cloudReq EXCEPT !.key =
                          IF rejects THEN [state |-> "rejected", value |-> "null"]
                          ELSE [state |-> "resolved",
                                value |-> IF found THEN provider ELSE "null"]]
        /\ IF rejects THEN UNCHANGED <<cachedApiKey, cachedApiKeyProvider>>
           ELSE /\ cachedApiKey' = IF found THEN provider ELSE "null"
                /\ cachedApiKeyProvider' = provider
  /\ UNCHANGED <<vars, obsVars, dispatchVars, reasonVars, streamVars, deviceVars, endpointVars,
                 cloudTranscriptionModel, lastRequest>>

\* optimizeAudio() goes on by one task: the reader's load or error event, the
\* decode settling, the offline rendering settling followed by the WAV encoding
OptimizeStep(ok) ==
  /\ cloudReq.stage = "awaiting"
  /\ cloudReq.audio.state \in {"reading", "decoding", "rendering"}
  /\ cloudReq' = [cloudReq EXCEPT !.audio =
                    IF ~ok THEN [state |-> "resolved", blob |-> "original"]
                    ELSE IF @.state = "reading" THEN [state |-> "decoding", blob |-> "none"]
                    ELSE IF @.state = "decoding" THEN [state |-> "rendering", blob |-> "none"]
                    ELSE [state |-> "resolved", blob |-> "wav"]]
  /\ UNCHANGED <<vars, obsVars, dispatchVars, reasonVars, streamVars, deviceVars, endpointVars,
                 cloudTranscriptionModel, cachedApiKey, cachedApiKeyProvider, lastRequest>>

\* Promise.all settles: it rejects as soon as one of its two promises does, and
\* the catch block takes over; with both resolved the form is built, the
\* endpoint resolved and the request sent
CloudRequestSend ==
  /\ cloudReq.stage = "awaiting"
  /\ LET rejected == cloudReq.key.state = "rejected" \/ cloudReq.audio.state = "rejected"
         cached == IF CacheStale(CurrentProvider, CurrentBaseUrl) THEN <<>>
                   ELSE cachedTranscriptionEndpoint
         endpoint == IF cached # <<>> THEN cached
                     ELSE ResolveEndpoint(CurrentProvider, CurrentBaseUrl)
     IN /\ rejected \/ (cloudReq.key.state = "resolved" /\ cloudReq.audio.state = "resolved")
        /\ IF rejected
           THEN /\ lastRequest' =
                     [NoRequest EXCEPT !.failed = IF cloudReq.audio.state = "rejected"
                                                  THEN "optimizeAudio" ELSE "getAPIKey"]
                /\ UNCHANGED endpointVars
           ELSE /\ lastRequest' =
                     [sent |-> TRUE, failed |-> "none", endpoint |-> endpoint,
                      apiKey |-> cloudReq.key.value,
                      stream |-> ShouldStreamTranscription(cloudReq.model, cloudReq.provider),
                      file |-> cloudReq.audio.blob, model |-> cloudReq.model,
                      provider |-> cloudReq.provider]
                /\ cachedTranscriptionEndpoint' = endpoint
                /\ cachedEndpointProvider' = CurrentProvider
                /\ cachedEndpointBaseUrl' = CurrentBaseUrl
                /\ UNCHANGED <<cloudTranscriptionProvider, cloudTranscriptionBaseUrl, lastEndpoint>>
  /\ cloudReq' = [stage |-> "none"]
  /\ UNCHANGED <<vars, obsVars, dispatchVars, reasonVars, streamVars, deviceVars,
                 cloudTranscriptionModel, cachedApiKey, cachedApiKeyProvider>>

CloudRequestNext ==
  \/ \E provider \in Providers, baseUrl \in RequestBaseUrls, model \in StoredModels :
       ChangeSettings(provider, baseUrl, model)
  \/ \E shortClip \in BOOLEAN, large \in BOOLEAN, contextThrows \in BOOLEAN :
       CloudRequestStart(shortClip, large, contextThrows)
  \/ \E ipc \in {"valid", "invalid", "throws"}, stored \in {"valid", "invalid"} :
       KeySettle(ipc, stored)
  \/ \E ok \in BOOLEAN : OptimizeStep(ok)
  \/ CloudRequestSend

CloudRequestSpec == Init /\ [][CloudRequestNext]_allVars

\* C31: optimizeAudio never rejects: whatever fails inside it, the promise
\* resolves, with the original blob, and the cloud request is not made to fail
\* by it.
C31_OptimizeNeverRejects ==
  /\ cloudReq.stage = "awaiting" => cloudReq.audio.state # "rejected"
  /\ lastRequest.failed # "optimizeAudio"

\* C32: on every exit path of a session its capture tracks are stopped only
\* after the VAD was torn down: at the step that stops the tracks of session s,
\* the sampling interval made for s is no longer scheduled, its analysis source
\* is disconnected and its analysis context is closed.
C32_TeardownOrder ==
  [][\A s \in Sessions :
       tracksStopped'[s] > tracksStopped[s]
         => (s \notin intervals' /\ s \notin connectedSources' /\ s \notin openContexts')]_vars

\* the newer model family of the one provider that streams
StreamingFamily(model) ==
  \/ model \in {<<"gpt-4o", "-transcribe">>, <<"gpt-4o", "-transcribe", "-diarize">>}
  \/ StartsWith(model, <<"gpt-4o", "-mini-transcribe">>)

\* C34: a request streams iff its provider is "openai" and its trimmed model
\* is gpt-4o-transcribe, gpt-4o-transcribe-diarize or starts with
\* gpt-4o-mini-transcribe; whisper-1, an empty model and every model under
\* groq or custom never stream; a request that streams never carries the WAV
\* produced by the optimization.
C34_StreamingEligibility ==
  /\ \A model \in StoredModels \cup {<<>>, <<" ">>}, provider \in Providers \ {"null"} :
       ShouldStreamTranscription(model, provider)
         <=> (provider = "openai" /\ StreamingFamily(Trim(model)))
  /\ lastRequest.sent =>
       /\ lastRequest.stream
            <=> (lastRequest.provider = "openai" /\ StreamingFamily(lastRequest.model))
       /\ lastRequest.provider \in {"groq", "custom"} => ~lastRequest.stream
       /\ lastRequest.model = <<"whisper-1">> => ~lastRequest.stream
       /\ lastRequest.stream => lastRequest.file # "wav"

\* a request for a dated mini model was sent to openai and streams
C34_Witness ==
  /\ lastRequest.sent
  /\ lastRequest.stream
  /\ lastRequest.model = <<"gpt-4o", "-mini-transcribe", "-2025">>
  /\ lastRequest.file = "original"

\* the provider whose API an endpoint belongs to: the custom host is the
\* custom provider's, the two built-in bases are openai's and groq's
EndpointOwner(endpoint) ==
  IF endpoint[2] = "host" THEN "custom"
  ELSE IF endpoint[2] = GROQ_BASE[2] THEN "groq"
  ELSE "openai"

\* C39: the bearer token of a cloud transcription request is the credential
\* of the provider whose endpoint the request is sent to: the custom
\* provider's key only goes to the configured custom endpoint, and a key cached
\* for one provider is not sent once the provider preference is another.
C39_KeyMatchesEndpoint ==
  (lastRequest.sent /\ lastRequest.apiKey # "null")
    => /\ lastRequest.apiKey = EndpointOwner(lastRequest.endpoint)
       /\ lastRequest.apiKey = CurrentProvider

\* C37: a cloud result is labelled "openai-reasoned" only if its text was
\* produced by processText for that request; with no reasoning model
\* configured, or with the reasoning call failed, the text is the trimmed raw
\* transcript and the source is "openai".
C37_ReasonedLabel ==
  LET c == dispatchRun
      text == ProcessTranscription(c.cloud.text, c)
  IN (dispatchResult.kind = "returned"
        /\ dispatchResult.source \in {"openai", "openai-reasoned"})
       => /\ dispatchResult.source = "openai-reasoned" => text.source = "reasoning"
          /\ (~c.reasoningModel \/ c.reasoning = "throws")
               => (dispatchResult.text = Trim(c.cloud.text) /\ dispatchResult.source = "openai")

\* C38: every result delivered to onTranscriptionComplete with success = true
\* carries a non-empty text, on every dispatch path and whatever processText
\* returned, the empty string included.
C38_DeliveredTextNonEmpty ==
  (dispatchResult.kind = "returned" /\ dispatchResult.success)
    => Len(dispatchResult.text) > 0

\* C35: each run of processAudio produces exactly one outcome: one
\* onTranscriptionComplete for a returned result, or one onError for a thrown
\* error, or neither for the engine's no-audio; never both and never twice; the
\* outcome comes before the one state change back to idle, and a step that
\* goes on to a fallback notifies nothing.
C35_OneOutcomePerRun ==
  [][\A s \in Sessions :
       LET settles == lastOp'.s = s
                        /\ lastOp'.op \in {"localSettled", "cloudSettled", "localFallbackSettled"}
           ends == sess[s] = "processing" /\ sess'[s] # "processing"
       IN /\ ends
               => /\ settles
                  /\ sess'[s] = "closed"
                  /\ emitted' =
                       (IF lastOp'.out.kind = "returned" THEN <<"complete">>
                        ELSE IF lastOp'.out.message # NoAudioMessage THEN <<"error">>
                        ELSE <<>>) \o <<"state:idle">>
          /\ (settles /\ ~ends) => (emitted' = <<>> /\ sess'[s] = "processing")
          /\ (sess[s] = "closed" /\ sess'[s] # "closed") => FALSE
          /\ "complete" \in {emitted'[i] : i \in DOMAIN emitted'}
               => \E x \in Sessions : sess[x] = "processing" /\ sess'[x] = "closed"]_vars

\* a run ended silently on the engine's no-audio: the idle state change only
C35_Witness ==
  \E s \in Sessions :
    /\ lastOp.op = "localSettled" /\ lastOp.s = s
    /\ lastOp.out = Threw(NoAudioMessage)
    /\ sess[s] = "closed"
    /\ emitted = <<"state:idle">>

\* ---------------------------------------------------------------------------
\* The manager with its voiced ticks counted
\* ---------------------------------------------------------------------------

\* the count starts again when startRecording gets as far as startVADMonitoring,
\* and goes up on a tick whose smoothed level is strictly above the threshold
CountVoicedTicks ==
  /\ voicedTicks' =
       IF lastOp'.op = "startRecordingSettled" /\ sess'[lastOp'.s] # "failed" THEN 0
       ELSE IF lastOp'.op = "vadTick" /\ lastOp'.ret /\ currentAudioLevel' > VOICE_THRESHOLD
            THEN voicedTicks + 1
       ELSE voicedTicks
  /\ UNCHANGED hookVars

AccountingNext ==
  \/ StartRecording /\ CountVoicedTicks
  \/ \E s \in Sessions, o \in AcquireOutcomes, v \in VADStartOutcomes :
       AcquireSettle(s, o, v) /\ CountVoicedTicks
  \/ \E i \in Sessions, rms \in RmsInputs : VADTick(i, rms) /\ CountVoicedTicks
  \/ StopRecording /\ CountVoicedTicks
  \/ CancelRecording /\ CountVoicedTicks
  \/ Cleanup /\ CountVoicedTicks
  \/ \E s \in Sessions, u \in BOOLEAN, p \in LocalProviders, g \in BOOLEAN :
       FinalizeOnStop(s, u, p, g) /\ CountVoicedTicks
  \/ \E s \in Sessions : CancelOnStop(s) /\ CountVoicedTicks
  \/ \E s \in Sessions : PipelineStep(s) /\ CountVoicedTicks

AccountingSpec == Init /\ [][AccountingNext]_<<vars, obsVars>>

\* how the double product n * 0.05 is rounded, written as SpeechSums is
TimesInterval == <<0, 0, 1, 0, 0, 1, 1, 0, 0, 0, 0, 1, 0, 1, 0>>

\* n ticks times 0.05 s: the decimal value, or the double product
TicksTimesInterval(n) ==
  {<<n * ANALYSIS_INTERVAL, 0>>}
    \cup (IF n > 0 THEN {<<n * ANALYSIS_INTERVAL, TimesInterval[n]>>} ELSE {})

\* C33: at every point speechDuration equals the number of ticks so far whose
\* smoothed level was strictly above the threshold, times 0.05 s; consequently
\* speechDuration > 0 implies voiceDetected, and voiceDetected implies
\* peakLevel > threshold.
C33_SpeechDurationAccounting ==
  /\ speechDuration \in TicksTimesInterval(voicedTicks)
  /\ speechDuration[1] > 0 => voiceDetected
  /\ voiceDetected => peakAudioLevel > VOICE_THRESHOLD

\* ---------------------------------------------------------------------------
\* The hook useAudioRecording around the manager
\* ---------------------------------------------------------------------------
\* Time is counted in seconds while the toast's timer is pending.

\* setTimeout(..., 2000)
NoAudioToastSeconds == 2

ToastLeftShowing == UNCHANGED toastVars

\* dismissNoAudioToast()
DismissNoAudioToast ==
  /\ showNoAudioToast' = FALSE
  /\ noAudioTimeoutRef' = 0

\* onNoAudioDetected: show the toast, replace the timer
OnNoAudioDetected ==
  /\ showNoAudioToast' = TRUE
  /\ noAudioTimeoutRef' = NoAudioToastSeconds

\* onStateChange: the last state the manager notified in this step, if any
OnStateChange ==
  LET states == {i \in DOMAIN emitted' :
                   emitted'[i] \in {"state:idle", "state:recording", "state:processing"}}
      last == CHOOSE i \in states : \A j \in states : j <= i
  IN hookState' =
       IF states = {} \/ ~callbacks' THEN hookState
       ELSE [isRecording |-> emitted'[last] = "state:recording",
             isProcessing |-> emitted'[last] = "state:processing"]

\* what the callbacks given to setCallbacks do with the notifications of a
\* task of the manager
HookCallbacks ==
  /\ OnStateChange
  /\ IF callbacks' /\ "noAudio" \in {emitted'[i] : i \in DOMAIN emitted'}
     THEN OnNoAudioDetected
     ELSE UNCHANGED toastVars
  /\ hookOp' = "task"
  /\ UNCHANGED <<voicedTicks, keyDown>>

\* one second passes on the toast's timer; at the end its callback runs
NoAudioTimerTick ==
  /\ noAudioTimeoutRef > 0
  /\ IF noAudioTimeoutRef = 1
     THEN /\ showNoAudioToast' = FALSE
          /\ noAudioTimeoutRef' = 0
          /\ hookOp' = "noAudioTimeout"
     ELSE /\ noAudioTimeoutRef' = noAudioTimeoutRef - 1
          /\ hookOp' = "timePasses"
          /\ UNCHANGED showNoAudioToast
  /\ UNCHANGED <<vars, auxVars, voicedTicks, keyDown, hookState>>

\* the toggle of the tap-to-talk hotkey: it reads the manager's getState()
HandleToggle ==
  /\ hookOp' = "handleToggle"
  /\ IF ~isRecording /\ ~isProcessing
     THEN DismissNoAudioToast /\ StartRecording
     ELSE IF isRecording
          THEN StopRecording /\ UNCHANGED toastVars
          ELSE UNCHANGED <<vars, auxVars, toastVars>>
  /\ UNCHANGED <<voicedTicks, keyDown, hookState>>

\* toggleListening: the button; it reads the hook's own state, and the
\* startRecording of the hook dismisses the toast before it calls the manager
ToggleListening ==
  /\ hookOp' = "toggleListening"
  /\ IF ~hookState.isRecording /\ ~hookState.isProcessing
     THEN DismissNoAudioToast /\ StartRecording
     ELSE IF hookState.isRecording
          THEN StopRecording /\ UNCHANGED toastVars
          ELSE UNCHANGED <<vars, auxVars, toastVars>>
  /\ UNCHANGED <<voicedTicks, keyDown, hookState>>

\* the user closes the toast
UserDismisses ==
  /\ showNoAudioToast
  /\ hookOp' = "dismissNoAudioToast"
  /\ DismissNoAudioToast
  /\ UNCHANGED <<vars, auxVars, voicedTicks, keyDown, hookState>>

\* the hook's events and, between them, the tasks of the manager
HookNext ==
  \/ HandleToggle
  \/ ToggleListening
  \/ UserDismisses
  \/ NoAudioTimerTick
  \/ \E s \in Sessions, o \in AcquireOutcomes, v \in VADStartOutcomes :
       AcquireSettle(s, o, v) /\ HookCallbacks
  \/ \E i \in Sessions, rms \in RmsInputs : VADTick(i, rms) /\ HookCallbacks
  \/ \E s \in Sessions, u \in BOOLEAN, p \in LocalProviders, g \in BOOLEAN :
       FinalizeOnStop(s, u, p, g) /\ HookCallbacks
  \/ \E s \in Sessions : PipelineStep(s) /\ HookCallbacks

hookAllVars == <<vars, auxVars, obsVars>>
HookSpec == Init /\ [][HookNext]_hookAllVars

\* handleStart: the push-to-talk key goes down
HandleStart ==
  /\ ~keyDown
  /\ keyDown' = TRUE
  /\ hookOp' = "handleStart"
  /\ IF ~isRecording /\ ~isProcessing
     THEN DismissNoAudioToast /\ StartRecording
     ELSE UNCHANGED <<vars, auxVars, toastVars>>
  /\ UNCHANGED <<voicedTicks, hookState>>

\* handleStop: the push-to-talk key goes up
HandleStop ==
  /\ keyDown
  /\ keyDown' = FALSE
  /\ hookOp' = "handleStop"
  /\ IF isRecording
     THEN StopRecording
     ELSE UNCHANGED <<vars, auxVars>>
  /\ UNCHANGED <<voicedTicks, toastVars, hookState>>

PushToTalkNext ==
  \/ HandleStart
  \/ HandleStop
  \/ NoAudioTimerTick
  \/ \E s \in Sessions, o \in AcquireOutcomes, v \in VADStartOutcomes :
       AcquireSettle(s, o, v) /\ HookCallbacks
  \/ \E i \in Sessions, rms \in RmsInputs : VADTick(i, rms) /\ HookCallbacks
  \/ \E s \in Sessions, u \in BOOLEAN, p \in LocalProviders, g \in BOOLEAN :
       FinalizeOnStop(s, u, p, g) /\ HookCallbacks
  \/ \E s \in Sessions : PipelineStep(s) /\ HookCallbacks

PushToTalkSpec == Init /\ [][PushToTalkNext]_hookAllVars

\* nothing of the manager is pending: no acquisition, no queued stop event, no
\* pipeline run
Settled ==
  \A s \in Sessions : sess[s] \notin {"acquiring", "stopping", "cancelling", "processing"}

\* C36: for every start-dictation event followed by a stop-dictation event,
\* in any timing relative to the device acquisition inside startRecording, the
\* recording that was started is stopped: once the stop event has been
\* delivered and all pending work has settled, the manager is not recording.
C36_PushToTalkStops ==
  (~keyDown /\ Settled)
    => (~isRecording /\ \A s \in Sessions : sess[s] # "recording")

\* C40: a toggle (hotkey or button) starts a recording only when the manager
\* is neither recording nor processing, stops it only when it is recording, and
\* has no effect on the session while processing; every accepted start
\* dismisses the no-audio toast; a no-audio signal makes the toast visible
\* until it is dismissed or 2 seconds have passed since the most recent signal.
C40_ToggleAndToast ==
  [][LET toggle == hookOp' \in {"handleToggle", "toggleListening"}
         started == toggle /\ \E s \in Sessions : sess[s] = "unused" /\ sess'[s] = "acquiring"
         stopped == toggle /\ \E s \in Sessions : sess[s] = "recording" /\ sess'[s] = "stopping"
         signal == hookOp' = "task" /\ "noAudio" \in {emitted'[i] : i \in DOMAIN emitted'}
     IN /\ started => (~isRecording /\ ~isProcessing)
        /\ stopped => isRecording
        /\ (toggle /\ isProcessing /\ ~isRecording) => UNCHANGED progVars
        /\ started => (~showNoAudioToast' /\ noAudioTimeoutRef' = 0)
        /\ signal => (showNoAudioToast' /\ noAudioTimeoutRef' = NoAudioToastSeconds)
        /\ showNoAudioToast' => noAudioTimeoutRef' \in 1..NoAudioToastSeconds
        /\ (showNoAudioToast /\ ~showNoAudioToast')
             => \/ hookOp' \in {"dismissNoAudioToast", "handleToggle", "toggleListening"}
                \/ hookOp' = "noAudioTimeout" /\ noAudioTimeoutRef = 1]_hookAllVars

\* the toast of a recording closed for want of audio, one second after the
\* signal, the manager idle
C40_Witness ==
  /\ showNoAudioToast
  /\ noAudioTimeoutRef = 1
  /\ hookOp = "timePasses"
  /\ sess[1] = "closed"
  /\ ~isRecording /\ ~isProcessing

====
